---- MODULE Spec2Model ----
(***************************************************************************)
(* A model of the text-processor repository: the TextCleaner transform     *)
(* chain (src/text_cleaner.py) and the InfoExtractor pattern registry      *)
(* (src/info_extractor.py).                                                *)
(*                                                                         *)
(* A text is a sequence of characters; a character is a one-character      *)
(* string, or "U+XXXX" for a character outside ASCII.  Regular expressions *)
(* are values built with Cls, NotCls, Cat, Rep, Plus, AtLeast, Opt and     *)
(* WordB, and are run by a backtracking matcher that yields Python's `re`  *)
(* results (leftmost match, greedy quantifiers, non-overlapping scan).     *)
(***************************************************************************)
EXTENDS Integers, Sequences, FiniteSets, TLC

VARIABLES
    input,      \* the text handed to the constructors (never assigned again)
    cleaner,    \* the TextCleaner: original_text, text, cleaning_steps
    extractor,  \* the InfoExtractor: text (its pattern table is patterns)
    calls,      \* names of the transform calls since construction / last reset
    prev,       \* the TextCleaner as it was when the last call was made
    ret,        \* the last call made and the value it returned
    cli,        \* the run of the command-line driver (cli.py), NoRun outside one
    held,       \* the report the caller got from get_report() and still holds
    classifier, \* the TextClassifier
    files,      \* the model files save_model() has written, by path
    ner         \* the NERExtractor: doc and entities

vars == <<input, cleaner, extractor, calls, prev, ret, cli, held, classifier, files, ner>>

----------------------------------------------------------------------------
(* Bounds of the model *)

\* longest text over CleanerAlphabet the TextCleaner state machine starts from
MaxLen == 1
\* most transform calls between two resets
MaxSteps == 2
\* longest text over WhitespaceAlphabet
MaxWsLen == 3
\* longest text over HtmlAlphabet
MaxHtmlLen == 4
\* most card-shaped tokens in a text
MaxCards == 2
\* most repetitions of one phone number in a text
MaxRepeat == 2
\* most tokens in a text with e-mail addresses
MaxEmailTokens == 2
\* the longest text of the remove_emails alphabet
MaxAtLen == 3
\* the most pieces of a text of the remove_urls inputs
MaxUrlPieces == 3
\* the most pieces of a text of the remove_phone_numbers inputs
MaxPhonePieces == 3
\* the longest text of the remove_special_characters alphabet
MaxSpecialLen == 3
\* the most tokens of a text of the get_summary inputs
MaxSummaryTokens == 7

----------------------------------------------------------------------------
(* Characters and character classes *)

AsciiLower == <<"a","b","c","d","e","f","g","h","i","j","k","l","m",
                "n","o","p","q","r","s","t","u","v","w","x","y","z">>
AsciiUpper == <<"A","B","C","D","E","F","G","H","I","J","K","L","M",
                "N","O","P","Q","R","S","T","U","V","W","X","Y","Z">>

Range(s) == {s[k] : k \in DOMAIN s}

LowerLetters == Range(AsciiLower)
UpperLetters == Range(AsciiUpper)
Letters == LowerLetters \cup UpperLetters
Digits == {"0","1","2","3","4","5","6","7","8","9"}

\* str.isspace() and the pattern class \s agree in Python 3; U+00A0 is the
\* no-break space, one of the non-ASCII characters both count as whitespace
Whitespace == {" ", "\t", "\n", "\r", "\f", "U+00A0"}

\* non-ASCII letters: sharp s, e acute, E acute, I with dot above
NonAsciiLetters == {"U+00DF", "U+00E9", "U+00C9", "U+0130"}

\* the pattern class \w of a str pattern: alphanumerics (Unicode) and "_"
WordChars == Letters \cup Digits \cup {"_"} \cup NonAsciiLetters

IndexOf(s, c) == CHOOSE k \in DOMAIN s : s[k] = c

----------------------------------------------------------------------------
(* Sequences *)

\* the concatenation of the sequences of ss (halving keeps the recursion shallow)
RECURSIVE Flatten(_)
Flatten(ss) ==
    IF ss = <<>> THEN <<>>
    ELSE IF Len(ss) = 1 THEN ss[1]
    ELSE LET h == Len(ss) \div 2
         IN Flatten(SubSeq(ss, 1, h)) \o Flatten(SubSeq(ss, h + 1, Len(ss)))

\* the indices of s, in increasing order
Indices(s) == [k \in DOMAIN s |-> k]

\* the first occurrence of every element, in order
Dedup(s) ==
    LET first == SelectSeq(Indices(s), LAMBDA k : \A j \in 1..(k - 1) : s[j] # s[k])
    IN [m \in DOMAIN first |-> s[first[m]]]

\* all sequences over S of length at most n
SeqsUpTo(S, n) == UNION {[1..k -> S] : k \in 0..n}

----------------------------------------------------------------------------
(* Regular expressions: Python's re on str patterns *)

Cls(S)    == [op |-> "class", set |-> S, neg |-> FALSE]
NotCls(S) == [op |-> "class", set |-> S, neg |-> TRUE]
Lit(c)    == Cls({c})
WordB     == [op |-> "wordb"]
Cat(rs)   == [op |-> "cat", items |-> rs]
Alt(rs)   == [op |-> "alt", items |-> rs]
Group(r)  == [op |-> "group", r |-> r]
Rep(r, lo, hi) == [op |-> "rep", r |-> r, min |-> lo, max |-> hi, bounded |-> TRUE]
AtLeast(r, lo) == [op |-> "rep", r |-> r, min |-> lo, max |-> lo, bounded |-> FALSE]
Plus(r) == AtLeast(r, 1)
Star(r) == AtLeast(r, 0)
Opt(r)  == Rep(r, 0, 1)
Times(r, n) == Rep(r, n, n)

IsWordAt(s, i) == i >= 1 /\ i <= Len(s) /\ s[i] \in WordChars

\* \b at position i: between s[i-1] and s[i]
AtWordBoundary(s, i) == IsWordAt(s, i - 1) # IsWordAt(s, i)

\* Ends(r, s, i): the positions where a match of r that starts at position i
\* of s can end (the index after its last character), in the order the
\* backtracking matcher tries them: greedy quantifiers try more repetitions
\* first.
RECURSIVE Ends(_, _, _), CatEnds(_, _, _, _), RepEnds(_, _, _, _)

EndsFromAll(r, s, starts) == Flatten([k \in DOMAIN starts |-> Ends(r, s, starts[k])])

CatEnds(items, k, s, starts) ==
    IF k > Len(items) \/ starts = <<>> THEN starts
    ELSE CatEnds(items, k + 1, s, Dedup(EndsFromAll(items[k], s, starts)))

\* the ends after n repetitions have been matched up to position i: first
\* those with one more repetition, then i itself
RepEnds(r, s, i, n) ==
    LET step == SelectSeq(Ends(r.r, s, i), LAMBDA e : e > i)
        more == IF ~r.bounded \/ n < r.max
                THEN Flatten([k \in DOMAIN step |-> RepEnds(r, s, step[k], n + 1)])
                ELSE <<>>
        here == IF n >= r.min THEN <<i>> ELSE <<>>
    IN Dedup(more \o here)

\* a repeated character class: the run of class characters at i decides the
\* ends, the longest first (what RepEnds yields, without its recursion)
ClassRepEnds(r, s, i) ==
    LET Stops(j) == j = Len(s) + 1 \/ ((s[j] \in r.r.set) = r.r.neg)
        stop == CHOOSE j \in i..(Len(s) + 1) : Stops(j) /\ \A k \in i..(j - 1) : ~Stops(k)
        run == stop - i
        most == IF r.bounded /\ r.max < run THEN r.max ELSE run
    IN IF most < r.min THEN <<>>
       ELSE [m \in 1..(most - r.min + 1) |-> i + most - m + 1]

Ends(r, s, i) ==
    CASE r.op = "class" ->
            IF i <= Len(s) /\ ((s[i] \in r.set) # r.neg) THEN <<i + 1>> ELSE <<>>
      [] r.op = "wordb" -> IF AtWordBoundary(s, i) THEN <<i>> ELSE <<>>
      [] r.op = "cat"   -> CatEnds(r.items, 1, s, <<i>>)
      [] r.op = "alt"   -> Dedup(Flatten([k \in DOMAIN r.items |-> Ends(r.items[k], s, i)]))
      [] r.op = "group" -> Ends(r.r, s, i)
      [] r.op = "rep"   -> IF r.r.op = "class" THEN ClassRepEnds(r, s, i)
                           ELSE RepEnds(r, s, i, 0)

\* the end of the match the matcher finds at position i, 0 when there is none
MatchEnd(r, s, i) == LET es == Ends(r, s, i) IN IF es = <<>> THEN 0 ELSE es[1]

\* the spans [start, end) of the matches finditer / findall / sub work on:
\* scan left to right, take the first match at the leftmost position, go on
\* behind it (one position further after an empty match).  ends[j] is
\* MatchEnd at j.
RECURSIVE ScanFrom(_, _)
ScanFrom(ends, i) ==
    IF \A j \in i..Len(ends) : ends[j] = 0 THEN <<>>
    ELSE LET j == CHOOSE j \in i..Len(ends) :
                       ends[j] # 0 /\ \A k \in i..(j - 1) : ends[k] = 0
         IN <<[start |-> j, end |-> ends[j]]>>
            \o ScanFrom(ends, IF ends[j] = j THEN j + 1 ELSE ends[j])

FindSpans(r, s) == ScanFrom([j \in 1..(Len(s) + 1) |-> MatchEnd(r, s, j)], 1)

\* the place of the capturing group among the items of a pattern, 0 for a
\* pattern without one
GroupIndex(r) ==
    IF r.op = "cat" /\ \E k \in DOMAIN r.items : r.items[k].op = "group"
    THEN CHOOSE k \in DOMAIN r.items : r.items[k].op = "group"
    ELSE 0

\* the text the capturing group holds in the match found at position i: the
\* first way, in the matcher's order, to match the items before the group and
\* the group so that the items behind it match too
GroupText(r, s, i) ==
    LET k == GroupIndex(r)
        pre == Ends(Cat(SubSeq(r.items, 1, k - 1)), s, i)
        post == Cat(SubSeq(r.items, k + 1, Len(r.items)))
        cand == Flatten([a \in 1..Len(pre) |->
                    LET gs == Ends(r.items[k], s, pre[a])
                    IN [b \in 1..Len(gs) |-> <<pre[a], gs[b]>>]])
        good == SelectSeq(cand, LAMBDA c : Ends(post, s, c[2]) # <<>>)
    IN SubSeq(s, good[1][1], good[1][2] - 1)

\* pattern.findall(s): the matched substrings, or what the capturing group
\* holds in each match when the pattern has one
FindAll(r, s) ==
    LET sp == FindSpans(r, s)
    IN [k \in 1..Len(sp) |->
            IF GroupIndex(r) = 0 THEN SubSeq(s, sp[k].start, sp[k].end - 1)
            ELSE GroupText(r, s, sp[k].start)]

\* re.sub(pattern, repl, s) for a repl without group references: the text
\* before each match and repl in its place, then the text behind the last
SubSpans(sp, repl, s) ==
    Flatten([k \in 1..(Len(sp) + 1) |->
        IF k <= Len(sp)
        THEN SubSeq(s, IF k = 1 THEN 1 ELSE sp[k - 1].end, sp[k].start - 1) \o repl
        ELSE SubSeq(s, IF k = 1 THEN 1 ELSE sp[k - 1].end, Len(s))])

Sub(r, repl, s) == SubSpans(FindSpans(r, s), repl, s)

----------------------------------------------------------------------------
(* str methods and unidecode *)

\* str.lower() of one character; I with dot above lowers to two code points
LowerChar(c) ==
    IF c \in UpperLetters THEN <<AsciiLower[IndexOf(AsciiUpper, c)]>>
    ELSE IF c = "U+00C9" THEN <<"U+00E9">>
    ELSE IF c = "U+0130" THEN <<"i", "U+0307">>
    ELSE <<c>>

\* str.upper() of one character; sharp s has no single upper-case code point
UpperChar(c) ==
    IF c \in LowerLetters THEN <<AsciiUpper[IndexOf(AsciiLower, c)]>>
    ELSE IF c = "U+00E9" THEN <<"U+00C9">>
    ELSE IF c = "U+00DF" THEN <<"S", "S">>
    ELSE <<c>>

\* unidecode() of one character: ASCII stays, the rest is transliterated
UnidecodeChar(c) ==
    CASE c = "U+00DF" -> <<"s", "s">>
      [] c = "U+00E9" -> <<"e">>
      [] c = "U+00C9" -> <<"E">>
      [] c = "U+0130" -> <<"I">>
      [] c = "U+00A0" -> <<" ">>
      [] c = "U+0307" -> <<>>
      [] OTHER -> <<c>>

StrLower(s) == Flatten([k \in 1..Len(s) |-> LowerChar(s[k])])
StrUpper(s) == Flatten([k \in 1..Len(s) |-> UpperChar(s[k])])
Unidecode(s) == Flatten([k \in 1..Len(s) |-> UnidecodeChar(s[k])])

\* s.replace(old, new) for a one-character old
StrReplace(s, old, new) == [k \in 1..Len(s) |-> IF s[k] = old THEN new ELSE s[k]]

\* s.strip(): from the first to the last character that is not whitespace
StrStrip(s) ==
    LET keep == SelectSeq(Indices(s), LAMBDA k : s[k] \notin Whitespace)
    IN IF keep = <<>> THEN <<>> ELSE SubSeq(s, keep[1], keep[Len(keep)])

\* s.split(): the maximal runs of characters that are not whitespace
StrSplit(s) ==
    LET IsText(k) == k >= 1 /\ k <= Len(s) /\ s[k] \notin Whitespace
        starts == SelectSeq(Indices(s), LAMBDA k : IsText(k) /\ ~IsText(k - 1))
        stops == SelectSeq(Indices(s), LAMBDA k : IsText(k) /\ ~IsText(k + 1))
    IN [m \in DOMAIN starts |-> SubSeq(s, starts[m], stops[m])]

\* sep.join(words)
StrJoin(sep, words) ==
    Flatten([k \in DOMAIN words |-> IF k = 1 THEN words[k] ELSE sep \o words[k]])

----------------------------------------------------------------------------
(* TextCleaner *)

LitSeq(cs) == [k \in 1..Len(cs) |-> Lit(cs[k])]

HtmlTagPattern == Cat(<<Lit("<"), Plus(NotCls({">"})), Lit(">")>>)
HttpUrlPattern ==
    Cat(LitSeq(<<"h","t","t","p">>) \o <<Opt(Lit("s"))>> \o LitSeq(<<":","/","/">>)
        \o <<Plus(NotCls(Whitespace))>>)
WwwUrlPattern == Cat(LitSeq(<<"w","w","w",".">>) \o <<Plus(NotCls(Whitespace))>>)
EmailTokenPattern == Cat(<<Plus(NotCls(Whitespace)), Lit("@"), Plus(NotCls(Whitespace))>>)
PhonePlainPattern ==
    Cat(<<Times(Cls(Digits), 3), Opt(Cls({"-", "."})), Times(Cls(Digits), 3),
          Opt(Cls({"-", "."})), Times(Cls(Digits), 4)>>)
PhoneParenPattern ==
    Cat(<<Lit("("), Times(Cls(Digits), 3), Lit(")"), Star(Cls(Whitespace)),
          Times(Cls(Digits), 3), Opt(Cls({"-", "."})), Times(Cls(Digits), 4)>>)
NumberPattern == Cat(<<Plus(Cls(Digits)), Opt(Lit(".")), Star(Cls(Digits))>>)
SpecialKeepSpacesPattern == NotCls(Letters \cup Digits \cup Whitespace)
SpecialPattern == NotCls(Letters \cup Digits)
WhitespaceRunPattern == Plus(Cls(Whitespace))

\* TextCleaner(text)
TextCleaner(text) == [original_text |-> text, text |-> text, cleaning_steps |-> <<>>]

\* the step record every transform appends
StepRecord(name, n) == [step |-> name, chars_removed |-> n]

\* Rewritten, but a call that leaves the text as it was logs nothing
RewrittenIfChanged(c, name, text, removed) ==
    IF text = c.text THEN c
    ELSE [c EXCEPT !.text = text,
                   !.cleaning_steps = Append(@, [step |-> name, chars_removed |-> removed])]

\* a transform's common frame: replace the text, append its record
Rewritten(c, name, text, removed) ==
    [c EXCEPT !.text = text,
              !.cleaning_steps = Append(@, StepRecord(name, removed))]

\* remove_html_tags, but a tag may not hold a "<": the pattern <[^<>]+>
remove_html_tags_innermost(c) ==
    LET text == Sub(Cat(<<Lit("<"), Plus(NotCls({"<", ">"})), Lit(">")>>), <<>>, c.text)
    IN Rewritten(c, "remove_html_tags", text, Len(c.text) - Len(text))

\* remove_html_tags, but each tag is replaced by a space
remove_html_tags_spaced(c) ==
    LET text == Sub(HtmlTagPattern, <<" ">>, c.text)
    IN Rewritten(c, "remove_html_tags", text, Len(c.text) - Len(text))

remove_html_tags(c) ==
    LET text == Sub(HtmlTagPattern, <<>>, c.text)
    IN Rewritten(c, "remove_html_tags", text, Len(c.text) - Len(text))

\* remove_urls, but without the pass over the www. tokens
remove_urls_http_only(c) ==
    LET text == Sub(HttpUrlPattern, <<>>, c.text)
    IN Rewritten(c, "remove_urls", text, Len(c.text) - Len(text))

remove_urls(c) ==
    LET text == Sub(WwwUrlPattern, <<>>, Sub(HttpUrlPattern, <<>>, c.text))
    IN Rewritten(c, "remove_urls", text, Len(c.text) - Len(text))

remove_emails(c) ==
    LET text == Sub(EmailTokenPattern, <<>>, c.text)
    IN Rewritten(c, "remove_emails", text, Len(c.text) - Len(text))

remove_phone_numbers(c) ==
    LET text == Sub(PhoneParenPattern, <<>>, Sub(PhonePlainPattern, <<>>, c.text))
    IN Rewritten(c, "remove_phone_numbers", text, Len(c.text) - Len(text))

remove_numbers(c) ==
    LET text == Sub(NumberPattern, <<>>, c.text)
    IN Rewritten(c, "remove_numbers", text, Len(c.text) - Len(text))

\* remove_special_characters, but with \w for the letters and digits, which
\* keeps "_" and the letters beyond ASCII
remove_special_characters_word(c, keep_spaces) ==
    LET text == IF keep_spaces THEN Sub(NotCls(WordChars \cup Whitespace), <<>>, c.text)
                ELSE Sub(NotCls(WordChars), <<>>, c.text)
    IN Rewritten(c, "remove_special_characters", text, Len(c.text) - Len(text))

remove_special_characters(c, keep_spaces) ==
    LET text == IF keep_spaces THEN Sub(SpecialKeepSpacesPattern, <<>>, c.text)
                ELSE Sub(SpecialPattern, <<>>, c.text)
    IN Rewritten(c, "remove_special_characters", text, Len(c.text) - Len(text))

to_lowercase(c) == Rewritten(c, "to_lowercase", StrLower(c.text), 0)

to_uppercase(c) == Rewritten(c, "to_uppercase", StrUpper(c.text), 0)

\* normalize_whitespace, but whitespace is collapsed pair by pair (\s\s)
normalize_whitespace_pairs(c) ==
    LET spaced == StrReplace(StrReplace(c.text, "\t", " "), "\n", " ")
        text == StrStrip(Sub(Times(Cls(Whitespace), 2), <<" ">>, spaced))
    IN Rewritten(c, "normalize_whitespace", text, Len(c.text) - Len(text))

\* normalize_whitespace, but without the final strip()
normalize_whitespace_no_strip(c) ==
    LET spaced == StrReplace(StrReplace(c.text, "\t", " "), "\n", " ")
        text == Sub(WhitespaceRunPattern, <<" ">>, spaced)
    IN Rewritten(c, "normalize_whitespace", text, Len(c.text) - Len(text))

normalize_whitespace(c) ==
    LET spaced == StrReplace(StrReplace(c.text, "\t", " "), "\n", " ")
        text == StrStrip(Sub(WhitespaceRunPattern, <<" ">>, spaced))
    IN Rewritten(c, "normalize_whitespace", text, Len(c.text) - Len(text))

normalize_unicode(c) ==
    LET text == Unidecode(c.text)
    IN Rewritten(c, "normalize_unicode", text, Len(c.text) - Len(text))

\* remove_extra_spaces, but only ASCII whitespace separates words
remove_extra_spaces_ascii(c) ==
    LET s == c.text
        IsText(k) == k >= 1 /\ k <= Len(s) /\ s[k] \notin Whitespace \ {"U+00A0"}
        starts == SelectSeq(Indices(s), LAMBDA k : IsText(k) /\ ~IsText(k - 1))
        stops == SelectSeq(Indices(s), LAMBDA k : IsText(k) /\ ~IsText(k + 1))
        text == StrJoin(<<" ">>, [m \in DOMAIN starts |-> SubSeq(s, starts[m], stops[m])])
    IN Rewritten(c, "remove_extra_spaces", text, Len(c.text) - Len(text))

remove_extra_spaces(c) ==
    LET text == StrJoin(<<" ">>, StrSplit(c.text))
    IN Rewritten(c, "remove_extra_spaces", text, Len(c.text) - Len(text))

get_cleaned_text(c) == c.text

get_report(c) ==
    [original_length |-> Len(c.original_text),
     final_length |-> Len(c.text),
     chars_removed |-> Len(c.original_text) - Len(c.text),
     steps_applied |-> c.cleaning_steps]

\* reset, but the step log is kept
reset_keeps_log(c) == [c EXCEPT !.text = c.original_text]

\* reset, but with the assignment turned round: original_text = text
reset_swapped(c) == [c EXCEPT !.original_text = c.text, !.cleaning_steps = <<>>]

reset(c) == [c EXCEPT !.text = c.original_text, !.cleaning_steps = <<>>]

----------------------------------------------------------------------------
(* InfoExtractor *)

\* InfoExtractor(text)
InfoExtractor(text) == [text |-> text]

D(lo, hi) == Rep(Cls(Digits), lo, hi)
SepOpt == Opt(Cls({"-", "."} \cup Whitespace))
Thousands == <<Plus(Cls(Digits)), Star(Cat(<<Lit(","), D(3, 3)>>)),
               Opt(Cat(<<Lit("."), D(2, 2)>>))>>

\* self.patterns
patterns ==
    [email |-> Cat(<<WordB, Plus(Cls(Letters \cup Digits \cup {".", "_", "%", "+", "-"})),
                     Lit("@"), Plus(Cls(Letters \cup Digits \cup {".", "-"})), Lit("."),
                     AtLeast(Cls(Letters \cup {"|"}), 2), WordB>>),
     url |-> Cat(LitSeq(<<"h","t","t","p">>) \o <<Opt(Lit("s"))>> \o LitSeq(<<":","/","/">>)
                 \o <<Plus(NotCls(Whitespace))>>),
     phone_intl |-> Cat(<<Lit("+"), D(1, 3), SepOpt, D(1, 4), SepOpt, D(1, 4), SepOpt, D(1, 9)>>),
     phone_us |-> Cat(<<Opt(Lit("(")), D(3, 3), Opt(Lit(")")), SepOpt, D(3, 3), SepOpt, D(4, 4)>>),
     date_slash |-> Cat(<<WordB, D(1, 2), Lit("/"), D(1, 2), Lit("/"), D(2, 4), WordB>>),
     date_dash |-> Cat(<<WordB, D(4, 4), Lit("-"), D(2, 2), Lit("-"), D(2, 2), WordB>>),
     time_24h |-> Cat(<<WordB,
                        Group(Alt(<<Cat(<<Opt(Cls({"0", "1"})), Cls(Digits)>>),
                                    Cat(<<Lit("2"), Cls({"0", "1", "2", "3"})>>)>>)),
                        Lit(":"), Cls({"0", "1", "2", "3", "4", "5"}), Cls(Digits), WordB>>),
     time_12h |-> Cat(<<WordB, D(1, 2), Lit(":"), Cls({"0", "1", "2", "3", "4", "5"}),
                        Cls(Digits), Star(Cls(Whitespace)),
                        Alt(<<Cat(LitSeq(<<"A","M">>)), Cat(LitSeq(<<"P","M">>)),
                              Cat(LitSeq(<<"a","m">>)), Cat(LitSeq(<<"p","m">>))>>),
                        WordB>>),
     currency_usd |-> Cat(<<Lit("$")>> \o Thousands),
     currency_sar |-> Cat(<<Alt(<<Cat(LitSeq(<<"S","A","R">>)), Cat(LitSeq(<<"S","R">>))>>),
                            Star(Cls(Whitespace))>> \o Thousands),
     hashtag |-> Cat(<<Lit("#"), Plus(Cls(WordChars))>>),
     mention |-> Cat(<<Lit("@"), Plus(Cls(WordChars))>>),
     credit_card |-> Cat(<<WordB, D(4, 4), Opt(Cls({"-"} \cup Whitespace)), D(4, 4),
                           Opt(Cls({"-"} \cup Whitespace)), D(4, 4),
                           Opt(Cls({"-"} \cup Whitespace)), D(4, 4), WordB>>),
     zip_code |-> Cat(<<WordB, D(5, 5), Opt(Cat(<<Lit("-"), D(4, 4)>>)), WordB>>),
     ipv4 |-> Cat(<<WordB, Rep(Cat(<<D(1, 3), Lit(".")>>), 3, 3), D(1, 3), WordB>>)]

\* extract_emails, but an address found again is left out
extract_emails_unique(e) == Dedup(FindAll(patterns.email, e.text))

extract_emails(e) == FindAll(patterns.email, e.text)

extract_urls(e) == FindAll(patterns.url, e.text)

\* the list extract_phones builds before it removes the duplicates
PhoneMatches(e) == FindAll(patterns.phone_intl, e.text) \o FindAll(patterns.phone_us, e.text)

\* list(set(xs)): the distinct elements of xs in an order the set's hashing
\* decides; every order is possible
ListOfSet(xs) ==
    {l \in [1..Cardinality(Range(xs)) -> Range(xs)] : Range(l) = Range(xs)}

\* the lists extract_phones can return
extract_phones(e) == ListOfSet(PhoneMatches(e))

\* the two lists of extract_dates the other way round
extract_dates_dash_first(e) ==
    FindAll(patterns.date_dash, e.text) \o FindAll(patterns.date_slash, e.text)

extract_dates(e) == FindAll(patterns.date_slash, e.text) \o FindAll(patterns.date_dash, e.text)

extract_times(e) == FindAll(patterns.time_24h, e.text) \o FindAll(patterns.time_12h, e.text)

extract_currency(e) ==
    FindAll(patterns.currency_usd, e.text) \o FindAll(patterns.currency_sar, e.text)

extract_hashtags(e) == FindAll(patterns.hashtag, e.text)

extract_mentions(e) == FindAll(patterns.mention, e.text)

\* card[-4:]
LastFour(card) == SubSeq(card, IF Len(card) > 4 THEN Len(card) - 3 ELSE 1, Len(card))

MaskPrefix == <<"*","*","*","*","-","*","*","*","*","-","*","*","*","*","-">>

\* extract_credit_cards, but without the masking
extract_credit_cards_unmasked(e) == FindAll(patterns.credit_card, e.text)

extract_credit_cards(e) ==
    LET cards == FindAll(patterns.credit_card, e.text)
    IN [k \in 1..Len(cards) |-> MaskPrefix \o LastFour(cards[k])]

extract_ip_addresses(e) == FindAll(patterns.ipv4, e.text)

\* the dictionaries extract_all can return (one per order of the phones)
extract_all(e) ==
    LET all == [emails |-> extract_emails(e),
                urls |-> extract_urls(e),
                phones |-> PhoneMatches(e),
                dates |-> extract_dates(e),
                times |-> extract_times(e),
                currency |-> extract_currency(e),
                hashtags |-> extract_hashtags(e),
                mentions |-> extract_mentions(e),
                credit_cards |-> extract_credit_cards(e),
                ip_addresses |-> extract_ip_addresses(e)]
    IN {[all EXCEPT !.phones = ph] : ph \in ListOfSet(all.phones)}

----------------------------------------------------------------------------
(* The TextCleaner as a state machine: one action per method *)

\* the characters the texts of the state machine are made of
CleanerAlphabet == {"a", " ", "U+00DF"}

\* texts that give every transform something to delete
SampleTexts ==
    {<<"<","b",">","A","1">>, <<"w","w","w",".","a"," ","b">>, <<"a","@","b"," ","\t">>,
     <<"5","5","5","-","1","2","3","-","4","5","6","7">>, <<"U+0130","U+00E9","\n","!">>}

CleanerInputs == SeqsUpTo(CleanerAlphabet, MaxLen) \cup SampleTexts

\* no command-line run: the classes are driven directly
\* a local or a result that may not be there yet: None, or Some(v)
None == <<>>
Some(v) == <<v>>
The(o) == o[1]

\* the place of an object that has not been constructed
Unbuilt == [built |-> FALSE]

NoRun == [pc |-> "none"]

\* no model file has been written
NoFiles == <<>>

Constructed(t) ==
    /\ cli = NoRun
    /\ held = None
    /\ classifier = Unbuilt
    /\ files = NoFiles
    /\ ner = Unbuilt
    /\ input = t
    /\ cleaner = TextCleaner(t)
    /\ extractor = InfoExtractor(t)
    /\ calls = <<>>
    /\ prev = TextCleaner(t)
    /\ ret = [op |-> "__init__", value |-> "self"]

Init == \E t \in CleanerInputs : Constructed(t)

\* the report the caller holds once the cleaner has become c: get_report()
\* puts the list self.cleaning_steps itself into the dictionary, and a transform
\* appends to that list in place
HeldReport(c) ==
    IF held # None /\ The(held).shares_steps
    THEN Some([The(held) EXCEPT !.value.steps_applied = c.cleaning_steps])
    ELSE held

\* a transform call: the cleaner is rewritten and returned
Transform(name, c) ==
    /\ Len(calls) < MaxSteps
    /\ cleaner' = c
    /\ held' = HeldReport(c)
    /\ calls' = Append(calls, name)
    /\ prev' = cleaner
    /\ ret' = [op |-> name, value |-> "self"]
    /\ UNCHANGED <<input, extractor, cli, classifier, files, ner>>

RemoveHtmlTags == Transform("remove_html_tags", remove_html_tags(cleaner))
RemoveUrls == Transform("remove_urls", remove_urls(cleaner))
RemoveEmails == Transform("remove_emails", remove_emails(cleaner))
RemovePhoneNumbers == Transform("remove_phone_numbers", remove_phone_numbers(cleaner))
RemoveNumbers == Transform("remove_numbers", remove_numbers(cleaner))
\* ret keeps the argument of the call next to the returned self
RemoveSpecialCharacters ==
    \E keep_spaces \in BOOLEAN :
        /\ Len(calls) < MaxSteps
        /\ cleaner' = remove_special_characters(cleaner, keep_spaces)
        /\ held' = HeldReport(remove_special_characters(cleaner, keep_spaces))
        /\ calls' = Append(calls, "remove_special_characters")
        /\ prev' = cleaner
        /\ ret' = [op |-> "remove_special_characters", value |-> "self",
                   keep_spaces |-> keep_spaces]
        /\ UNCHANGED <<input, extractor, cli, classifier, files, ner>>
ToLowercase == Transform("to_lowercase", to_lowercase(cleaner))
ToUppercase == Transform("to_uppercase", to_uppercase(cleaner))
NormalizeWhitespace == Transform("normalize_whitespace", normalize_whitespace(cleaner))
NormalizeUnicode == Transform("normalize_unicode", normalize_unicode(cleaner))
RemoveExtraSpaces == Transform("remove_extra_spaces", remove_extra_spaces(cleaner))

GetCleanedText ==
    /\ prev' = cleaner
    /\ ret' = [op |-> "get_cleaned_text", value |-> get_cleaned_text(cleaner)]
    /\ held' = held
    /\ UNCHANGED <<input, cleaner, extractor, calls, cli, classifier, files, ner>>

GetReport ==
    /\ prev' = cleaner
    /\ ret' = [op |-> "get_report", value |-> get_report(cleaner)]
    /\ held' = held
    /\ UNCHANGED <<input, cleaner, extractor, calls, cli, classifier, files, ner>>

\* get_report() by a caller that keeps the dictionary it gets: the dictionary's
\* steps_applied is the list self.cleaning_steps itself
KeepReport ==
    /\ prev' = cleaner
    /\ ret' = [op |-> "get_report", value |-> get_report(cleaner)]
    /\ held' = Some([value |-> get_report(cleaner), shares_steps |-> TRUE])
    /\ UNCHANGED <<input, cleaner, extractor, calls, cli, classifier, files, ner>>

\* reset() binds a new list to self.cleaning_steps: a report handed out before
\* keeps the old one
Reset ==
    /\ cleaner' = reset(cleaner)
    /\ held' = IF held = None THEN None
               ELSE Some([The(held) EXCEPT !.shares_steps = FALSE])
    /\ calls' = <<>>
    /\ prev' = cleaner
    /\ ret' = [op |-> "reset", value |-> "self"]
    /\ UNCHANGED <<input, extractor, cli, classifier, files, ner>>

Next ==
    \/ RemoveHtmlTags \/ RemoveUrls \/ RemoveEmails \/ RemovePhoneNumbers
    \/ RemoveNumbers \/ RemoveSpecialCharacters \/ ToLowercase \/ ToUppercase
    \/ NormalizeWhitespace \/ NormalizeUnicode \/ RemoveExtraSpaces
    \/ GetCleanedText \/ GetReport \/ Reset

Spec == Init /\ [][Next]_vars

----------------------------------------------------------------------------
(* normalize_whitespace and remove_extra_spaces over every short text of     *)
(* whitespace and letters                                                    *)

WhitespaceAlphabet == {" ", "\t", "\n", "U+00A0", "a"}

\* "Hello    world\n\n\twith   spaces"
HelloText ==
    <<"H","e","l","l","o"," "," "," "," ","w","o","r","l","d","\n","\n","\t",
      "w","i","t","h"," "," "," ","s","p","a","c","e","s">>

\* "Hello world with spaces"
HelloNormalized ==
    <<"H","e","l","l","o"," ","w","o","r","l","d"," ","w","i","t","h"," ",
      "s","p","a","c","e","s">>

WhitespaceInputs == SeqsUpTo(WhitespaceAlphabet, MaxWsLen) \cup {HelloText}

InitWhitespace == \E t \in WhitespaceInputs : Constructed(t)

NextWhitespace == NormalizeWhitespace \/ RemoveExtraSpaces \/ GetCleanedText \/ GetReport

SpecWhitespace == InitWhitespace /\ [][NextWhitespace]_vars

----------------------------------------------------------------------------
(* remove_html_tags over every short text of angle brackets and letters      *)

HtmlAlphabet == {"<", ">", "a", "\n"}

\* "<h1>Title</h1><p>Content</p>"
TitleText ==
    <<"<","h","1",">","T","i","t","l","e","<","/","h","1",">",
      "<","p",">","C","o","n","t","e","n","t","<","/","p",">">>

\* malformed and nested markup: "<<a>b>" and "<><a>b>"
NestedTagText == <<"<","<","a",">","b",">">>
EmptyTagText == <<"<",">","<","a",">","b",">">>

HtmlInputs == SeqsUpTo(HtmlAlphabet, MaxHtmlLen) \cup {TitleText, NestedTagText, EmptyTagText}

InitHtml == \E t \in HtmlInputs : Constructed(t)

NextHtml == RemoveHtmlTags \/ GetCleanedText \/ GetReport

SpecHtml == InitHtml /\ [][NextHtml]_vars

----------------------------------------------------------------------------
(* remove_emails over every short text of "@", letters and whitespace        *)

AtAlphabet == {"a", "@", " ", "\n"}

\* "Contact me@example.com or support@test.org"
ContactMeText ==
    <<"C","o","n","t","a","c","t"," ","m","e","@","e","x","a","m","p","l","e",
      ".","c","o","m"," ","o","r"," ","s","u","p","p","o","r","t","@","t","e","s","t",
      ".","o","r","g">>

AtInputs == SeqsUpTo(AtAlphabet, MaxAtLen) \cup {ContactMeText}

InitAt == \E t \in AtInputs : Constructed(t)

NextAt == RemoveEmails \/ GetCleanedText \/ GetReport

SpecAt == InitAt /\ [][NextAt]_vars

----------------------------------------------------------------------------
(* remove_urls over the texts of a few pieces of URLs, letters and spaces    *)

UrlPieces ==
    {<<"h","t","t","p",":","/","/">>, <<"h","t","t","p","s",":","/","/">>,
     <<"w","w","w",".">>, <<"w","w">>, <<"a">>, <<" ">>}

\* "Check https://example.com and www.test.com"
CheckText ==
    <<"C","h","e","c","k"," ","h","t","t","p","s",":","/","/","e","x","a","m","p","l","e",
      ".","c","o","m"," ","a","n","d"," ","w","w","w",".","t","e","s","t",".","c","o","m">>

UrlInputs == {Flatten(ps) : ps \in SeqsUpTo(UrlPieces, MaxUrlPieces)} \cup {CheckText}

InitUrls == \E t \in UrlInputs : Constructed(t)

NextUrls == RemoveUrls \/ GetCleanedText \/ GetReport

SpecUrls == InitUrls /\ [][NextUrls]_vars

----------------------------------------------------------------------------
(* remove_phone_numbers over the texts of a few phone numbers and pieces of  *)
(* phone numbers                                                             *)

\* 555-123-4567, 5551234567, (555), 555, 123-4567, "-", " "
PhonePieces ==
    {<<"5","5","5","-","1","2","3","-","4","5","6","7">>,
     <<"5","5","5","1","2","3","4","5","6","7">>,
     <<"(","5","5","5",")">>,
     <<"5","5","5">>,
     <<"1","2","3","-","4","5","6","7">>,
     <<"-">>,
     <<" ">>}

\* "Call (555) 123-4567 or 555-987-6543"
CallText ==
    <<"C","a","l","l"," ","(","5","5","5",")"," ","1","2","3","-","4","5","6","7"," ",
      "o","r"," ","5","5","5","-","9","8","7","-","6","5","4","3">>

PhoneTextInputs == {Flatten(ps) : ps \in SeqsUpTo(PhonePieces, MaxPhonePieces)} \cup {CallText}

InitPhoneTexts == \E t \in PhoneTextInputs : Constructed(t)

NextPhoneTexts == RemovePhoneNumbers \/ GetCleanedText \/ GetReport

SpecPhoneTexts == InitPhoneTexts /\ [][NextPhoneTexts]_vars

----------------------------------------------------------------------------
(* remove_special_characters over every short text of letters, digits,       *)
(* whitespace and other characters                                           *)

SpecialAlphabet == {"a", "7", " ", "U+00A0", "!", "_", "U+00E9"}

\* "Hello! @#$%^&*() World!!!"
HelloWorldText ==
    <<"H","e","l","l","o","!"," ","@","#","$","%","^","&","*","(",")"," ",
      "W","o","r","l","d","!","!","!">>

SpecialInputs == SeqsUpTo(SpecialAlphabet, MaxSpecialLen) \cup {HelloWorldText}

InitSpecial == \E t \in SpecialInputs : Constructed(t)

NextSpecial == RemoveSpecialCharacters \/ GetCleanedText \/ GetReport

SpecSpecial == InitSpecial /\ [][NextSpecial]_vars

----------------------------------------------------------------------------
(* The InfoExtractor: one action per accessor.  The extractor holds the text *)
(* it was constructed with and never assigns it again.                       *)

Extract(name, value) ==
    /\ ret' = [op |-> name, value |-> value]
    /\ UNCHANGED <<input, cleaner, extractor, calls, prev, cli, held, classifier, files, ner>>

ExtractEmails == Extract("extract_emails", extract_emails(extractor))
ExtractUrls == Extract("extract_urls", extract_urls(extractor))
ExtractPhones == \E l \in extract_phones(extractor) : Extract("extract_phones", l)
ExtractDates == Extract("extract_dates", extract_dates(extractor))
ExtractTimes == Extract("extract_times", extract_times(extractor))
ExtractCurrency == Extract("extract_currency", extract_currency(extractor))
ExtractHashtags == Extract("extract_hashtags", extract_hashtags(extractor))
ExtractMentions == Extract("extract_mentions", extract_mentions(extractor))
ExtractCreditCards == Extract("extract_credit_cards", extract_credit_cards(extractor))
ExtractIpAddresses == Extract("extract_ip_addresses", extract_ip_addresses(extractor))
ExtractAll == \E d \in extract_all(extractor) : Extract("extract_all", d)

NextExtractor ==
    \/ ExtractEmails \/ ExtractUrls \/ ExtractPhones \/ ExtractDates \/ ExtractTimes
    \/ ExtractCurrency \/ ExtractHashtags \/ ExtractMentions \/ ExtractCreditCards
    \/ ExtractIpAddresses \/ ExtractAll

\* the texts of up to n tokens of a set, one space between two tokens
Sentences(tokens, n) ==
    {StrJoin(<<" ">>, ws) : ws \in SeqsUpTo(tokens, n)}

----------------------------------------------------------------------------
(* Texts with credit-card numbers *)

\* 4532-1234-5678-9010, 4532 1234 5678 9011, 4532123456789012,
\* 4532-1234 56789013 (mixed separators), x4532123456789015 (no boundary
\* before the digits), 4532.1234.5678.9016 (dots do not separate)
CardTokens ==
    {<<"4","5","3","2","-","1","2","3","4","-","5","6","7","8","-","9","0","1","0">>,
     <<"4","5","3","2"," ","1","2","3","4"," ","5","6","7","8"," ","9","0","1","1">>,
     <<"4","5","3","2","1","2","3","4","5","6","7","8","9","0","1","2">>,
     <<"4","5","3","2","-","1","2","3","4"," ","5","6","7","8","9","0","1","3">>,
     <<"x","4","5","3","2","1","2","3","4","5","6","7","8","9","0","1","5">>,
     <<"4","5","3","2",".","1","2","3","4",".","5","6","7","8",".","9","0","1","6">>}

InitCards == \E t \in Sentences(CardTokens, MaxCards) : Constructed(t)

NextCards == ExtractCreditCards \/ ExtractAll

SpecCards == InitCards /\ [][NextCards]_vars

----------------------------------------------------------------------------
(* Texts with phone numbers *)

\* +1-800-555-0199, +966-50-123-4567, +15551234567, +44 20 7946 0958,
\* (555) 123-4567, 555-123-4567, 555.123.4567, 5551234567
PhoneNumbers ==
    {<<"+","1","-","8","0","0","-","5","5","5","-","0","1","9","9">>,
     <<"+","9","6","6","-","5","0","-","1","2","3","-","4","5","6","7">>,
     <<"+","1","5","5","5","1","2","3","4","5","6","7">>,
     <<"+","4","4"," ","2","0"," ","7","9","4","6"," ","0","9","5","8">>,
     <<"(","5","5","5",")"," ","1","2","3","-","4","5","6","7">>,
     <<"5","5","5","-","1","2","3","-","4","5","6","7">>,
     <<"5","5","5",".","1","2","3",".","4","5","6","7">>,
     <<"5","5","5","1","2","3","4","5","6","7">>}

\* one phone number one or more times, a space between two occurrences
PhoneRepeated ==
    {StrJoin(<<" ">>, [k \in 1..n |-> p]) : p \in PhoneNumbers, n \in 1..MaxRepeat}

\* two phone numbers, a space between them
PhonePairs == {p \o <<" ">> \o q : p \in PhoneNumbers, q \in PhoneNumbers}

InitPhones == \E t \in PhoneRepeated \cup PhonePairs : Constructed(t)

NextPhones == ExtractPhones

SpecPhones == InitPhones /\ [][NextPhones]_vars

----------------------------------------------------------------------------
(* Texts with e-mail addresses *)

\* "Contact: john@example.com or support@test.org"
ContactText ==
    <<"C","o","n","t","a","c","t",":"," ","j","o","h","n","@","e","x","a","m","p","l","e",
      ".","c","o","m"," ","o","r"," ","s","u","p","p","o","r","t","@","t","e","s","t",
      ".","o","r","g">>

JohnEmail == <<"j","o","h","n","@","e","x","a","m","p","l","e",".","c","o","m">>
SupportEmail == <<"s","u","p","p","o","r","t","@","t","e","s","t",".","o","r","g">>

\* a@b.co, x_y@d-e.org., a@b (no top-level domain), @b.co (no local part),
\* a@b.c|d, <e acute>a@b.co (no boundary before a), a@b.co1 (no boundary behind), or
EmailTokens ==
    {<<"a","@","b",".","c","o">>,
     <<"x","_","y","@","d","-","e",".","o","r","g",".">>,
     <<"a","@","b">>,
     <<"@","b",".","c","o">>,
     <<"a","@","b",".","c","|","d">>,
     <<"U+00E9","a","@","b",".","c","o">>,
     <<"a","@","b",".","c","o","1">>,
     <<"o","r">>}

EmailInputs == Sentences(EmailTokens, MaxEmailTokens) \cup {ContactText}

InitEmails == \E t \in EmailInputs : Constructed(t)

NextEmails == ExtractEmails \/ ExtractMentions

SpecEmails == InitEmails /\ [][NextEmails]_vars

----------------------------------------------------------------------------
(* Properties of the TextCleaner state machine (Spec) *)

TransformNames ==
    {"remove_html_tags", "remove_urls", "remove_emails", "remove_phone_numbers",
     "remove_numbers", "remove_special_characters", "to_lowercase", "to_uppercase",
     "normalize_whitespace", "normalize_unicode", "remove_extra_spaces"}

StepNames(steps) == [k \in DOMAIN steps |-> steps[k].step]

RECURSIVE SumRemoved(_)
SumRemoved(steps) ==
    IF steps = <<>> THEN 0 ELSE Head(steps).chars_removed + SumRemoved(Tail(steps))

\* C1: whatever transforms were called before, after reset() get_cleaned_text()
\* returns the text given to the constructor, the step log is empty, and
\* reset() has returned the cleaner itself.
C1_ResetRestores ==
    ret.op = "reset" =>
        /\ get_cleaned_text(cleaner) = input
        /\ get_report(cleaner).steps_applied = <<>>
        /\ ret.value = "self"

\* reset() called on a cleaner whose text differs from the constructor's and
\* whose log holds two steps
C1_Witness ==
    /\ ret.op = "reset"
    /\ prev.text # input
    /\ Len(prev.cleaning_steps) >= 2

\* C2: in every reachable state the report's final_length is original_length
\* minus the sum of the chars_removed of the recorded steps, that is: the
\* report's chars_removed is the sum of the steps' chars_removed.
C2_ReportAddsUp ==
    LET report == get_report(cleaner)
    IN /\ report.final_length = report.original_length - SumRemoved(report.steps_applied)
       /\ report.chars_removed = SumRemoved(report.steps_applied)

\* C3: steps_applied holds one record per transform call since construction or
\* the last reset(), the i-th record names the i-th transform called, and a
\* transform call appends one record and leaves the earlier ones as they were,
\* also when it changed nothing.
C3_OneRecordPerCall ==
    /\ StepNames(get_report(cleaner).steps_applied) = calls
    /\ ret.op \in TransformNames =>
          /\ Len(cleaner.cleaning_steps) = Len(prev.cleaning_steps) + 1
          /\ SubSeq(cleaner.cleaning_steps, 1, Len(prev.cleaning_steps)) = prev.cleaning_steps
          /\ cleaner.cleaning_steps[Len(cleaner.cleaning_steps)].step = ret.op

\* a second transform call that changed nothing, after a different transform
C3_Witness ==
    /\ ret.op \in TransformNames
    /\ cleaner.text = prev.text
    /\ Len(cleaner.cleaning_steps) = 2
    /\ cleaner.cleaning_steps[1].step # cleaner.cleaning_steps[2].step
    /\ cleaner.cleaning_steps[1].chars_removed > 0

\* C4: original_text stays the text given to the constructor; get_cleaned_text()
\* and get_report() leave text, original_text and the step log as they were;
\* the text changes only in a transform call or in reset().
C4_ReadsChangeNothing ==
    /\ cleaner.original_text = input
    /\ ret.op \in {"get_cleaned_text", "get_report"} => cleaner = prev
    /\ ret.op = "get_cleaned_text" => ret.value = cleaner.text
    /\ cleaner.text # prev.text => ret.op \in TransformNames \cup {"reset"}

\* get_report() called after a reset() and a transform that changed the text
C4_Witness ==
    /\ ret.op = "get_report"
    /\ cleaner.text # input
    /\ ret.value.steps_applied # <<>>
    /\ ret.value.chars_removed # 0

----------------------------------------------------------------------------
(* Properties of normalize_whitespace (SpecWhitespace) *)

LastStep(c) == c.cleaning_steps[Len(c.cleaning_steps)]

\* the positions of s that hold a character other than whitespace
InkPositions(s) == SelectSeq(Indices(s), LAMBDA k : s[k] \notin Whitespace)

\* C5: a normalize_whitespace() call that follows another normalize_whitespace()
\* call leaves the text as the first call made it and records chars_removed = 0.
C5_NormalizeWhitespaceIdempotent ==
    ( /\ ret.op = "normalize_whitespace"
      /\ Len(calls) >= 2
      /\ calls[Len(calls) - 1] = "normalize_whitespace" ) =>
        /\ cleaner.text = prev.text
        /\ LastStep(cleaner).chars_removed = 0

\* the second of two normalize_whitespace() calls on a text the first one changed
C5_Witness ==
    /\ ret.op = "normalize_whitespace"
    /\ calls = <<"normalize_whitespace", "normalize_whitespace">>
    /\ cleaner.cleaning_steps[1].chars_removed > 0
    /\ \E k \in DOMAIN input : input[k] \in {"\t", "\n"}
    /\ cleaner.text # <<>>

\* C6: the text normalize_whitespace() leaves has no tab and no newline, no two
\* adjacent whitespace characters and no whitespace at either end; its
\* characters other than whitespace are those of the text before, in the same
\* order; two of them are adjacent exactly when they were adjacent before, and
\* are otherwise separated by one space.  "Hello    world\n\n\twith   spaces"
\* becomes "Hello world with spaces".
C6_NormalizeWhitespaceResult ==
    LET t == cleaner.text
        p == prev.text
        tInk == InkPositions(t)
        pInk == InkPositions(p)
    IN /\ ret.op = "normalize_whitespace" =>
            /\ \A k \in DOMAIN t : t[k] \notin {"\t", "\n"}
            /\ \A k \in 1..(Len(t) - 1) : ~(t[k] \in Whitespace /\ t[k + 1] \in Whitespace)
            /\ t # <<>> => t[1] \notin Whitespace /\ t[Len(t)] \notin Whitespace
            /\ \A k \in DOMAIN t : t[k] \in Whitespace => t[k] = " "
            /\ [m \in DOMAIN tInk |-> t[tInk[m]]] = [m \in DOMAIN pInk |-> p[pInk[m]]]
            /\ \A m \in 1..(Len(tInk) - 1) :
                  IF pInk[m + 1] = pInk[m] + 1
                  THEN tInk[m + 1] = tInk[m] + 1
                  ELSE tInk[m + 1] = tInk[m] + 2
       /\ (input = HelloText /\ calls = <<"normalize_whitespace">>) =>
            cleaner.text = HelloNormalized

\* normalize_whitespace() on the example text
C6_Witness ==
    /\ ret.op = "normalize_whitespace"
    /\ prev.text = HelloText
    /\ cleaner.text = HelloNormalized

----------------------------------------------------------------------------
(* Properties of remove_html_tags (SpecHtml) *)

\* the spans <i, j> of s that read "<", one or more characters other than ">", ">"
TagLikeSpans(s) ==
    {sp \in (DOMAIN s) \X (DOMAIN s) :
        /\ sp[2] >= sp[1] + 2
        /\ s[sp[1]] = "<"
        /\ s[sp[2]] = ">"
        /\ \A k \in (sp[1] + 1)..(sp[2] - 1) : s[k] # ">"}

Covered(spans) == UNION {sp[1]..sp[2] : sp \in spans}

\* C7: remove_html_tags() leaves a text no longer than the one before and
\* records chars_removed >= 0; there is a set of pairwise disjoint tag-like
\* spans of the text before, leaving out a tag-like span only where it overlaps
\* a chosen one that starts earlier, such that the text after is the text
\* before without the characters of the chosen spans, in their order, and
\* chars_removed is the number of characters in the chosen spans.
C7_RemoveHtmlTagsDeletesSpans ==
    LET t == cleaner.text
        p == prev.text
        n == LastStep(cleaner).chars_removed
    IN ret.op = "remove_html_tags" =>
        /\ Len(t) <= Len(p)
        /\ n >= 0
        /\ \E chosen \in SUBSET TagLikeSpans(p) :
              /\ \A a, b \in chosen : a # b => (a[1]..a[2]) \cap (b[1]..b[2]) = {}
              /\ \A a \in TagLikeSpans(p) \ chosen :
                    \E b \in chosen : b[1] < a[1] /\ a[1] <= b[2]
              /\ [m \in DOMAIN t |-> <<t[m]>>] =
                     SelectSeq([k \in DOMAIN p |-> IF k \in Covered(chosen) THEN <<>> ELSE <<p[k]>>],
                               LAMBDA x : x # <<>>)
              /\ n = Cardinality(Covered(chosen))

\* remove_html_tags() on "<h1>Title</h1><p>Content</p>": four tags, 16 characters
C7_Witness ==
    /\ ret.op = "remove_html_tags"
    /\ prev.text = TitleText
    /\ LastStep(cleaner).chars_removed = 16
    /\ Len(cleaner.text) = 12

----------------------------------------------------------------------------
(* Properties of extract_credit_cards (SpecCards) *)

DigitsOf(s) == SelectSeq(s, LAMBDA c : c \in Digits)

\* the card numbers as the pattern finds them in the held text
RawCards == FindAll(patterns.credit_card, extractor.text)

\* C8: every string extract_credit_cards() returns, and every string of the
\* credit_cards entry extract_all() returns, is "****-****-****-" followed by the
\* last four digits of the 16-digit match it stands for, whatever separators
\* the match has; it holds no other digit.
C8_CardsAreMasked ==
    LET out == IF ret.op = "extract_all" THEN ret.value.credit_cards ELSE ret.value
        raw == RawCards
        digits == [k \in DOMAIN raw |-> DigitsOf(raw[k])]
    IN ret.op \in {"extract_credit_cards", "extract_all"} =>
        /\ Len(out) = Len(raw)
        /\ \A k \in DOMAIN out :
              /\ Len(digits[k]) = 16
              /\ Len(out[k]) = 19
              /\ SubSeq(out[k], 1, 15) = MaskPrefix
              /\ SubSeq(out[k], 16, 19) = SubSeq(digits[k], 13, 16)
              /\ DigitsOf(out[k]) = SubSeq(digits[k], 13, 16)

\* extract_all() on a text with two card numbers, one written with
\* separators and one without
C8_Witness ==
    /\ ret.op = "extract_all"
    /\ Len(ret.value.credit_cards) = 2
    /\ Len(RawCards[1]) = 19
    /\ Len(RawCards[2]) = 16
    /\ ret.value.credit_cards[1] # ret.value.credit_cards[2]

----------------------------------------------------------------------------
(* Properties of extract_phones (SpecPhones) *)

\* C9: extract_phones() never returns two equal strings, and on a text that
\* holds one phone number twice in the same format and no other it returns
\* one entry.
C9_RepeatedPhoneOnce ==
    ret.op = "extract_phones" =>
        /\ \A i, j \in DOMAIN ret.value : i # j => ret.value[i] # ret.value[j]
        /\ (\E p \in PhoneNumbers : input = p \o <<" ">> \o p) => Len(ret.value) = 1

----------------------------------------------------------------------------
(* Properties of extract_emails (SpecEmails) *)

LocalChars == Letters \cup Digits \cup {".", "_", "%", "+", "-"}
DomainChars == Letters \cup Digits \cup {".", "-"}
TldChars == Letters \cup {"|"}

\* s[i..j] reads as an address where it stands: a word boundary, one or more
\* local characters, "@", one or more domain characters, ".", two or more
\* top-level characters, a word boundary
EmailShaped(s, i, j) ==
    /\ AtWordBoundary(s, i)
    /\ AtWordBoundary(s, j + 1)
    /\ \E a \in (i + 1)..(j - 4) :
          /\ s[a] = "@"
          /\ \A k \in i..(a - 1) : s[k] \in LocalChars
          /\ \E d \in (a + 2)..(j - 2) :
                /\ s[d] = "."
                /\ \A k \in (a + 1)..(d - 1) : s[k] \in DomainChars
                /\ \A k \in (d + 1)..j : s[k] \in TldChars

EmailSpans(s) == {sp \in (DOMAIN s) \X (DOMAIN s) : EmailShaped(s, sp[1], sp[2])}

\* the spans of a set of disjoint spans, from left to right
LeftToRight(spans) ==
    [m \in 1..Cardinality(spans) |->
        CHOOSE sp \in spans : Cardinality({q \in spans : q[1] < sp[1]}) = m - 1]

\* C10: extract_emails() returns the addresses of the held text from left to
\* right, one entry per occurrence: the entries are the texts of disjoint
\* address-shaped spans, each the longest at its start, and an address-shaped
\* span is left out only where it overlaps a chosen span that starts no later.
\* On "Contact: john@example.com or support@test.org" it returns
\* ["john@example.com", "support@test.org"].
C10_EmailsInOrder ==
    LET s == extractor.text
    IN ret.op = "extract_emails" =>
        /\ \E chosen \in SUBSET EmailSpans(s) :
              /\ \A x, y \in chosen : x # y => (x[1]..x[2]) \cap (y[1]..y[2]) = {}
              /\ \A x \in EmailSpans(s) \ chosen :
                    \E y \in chosen : y[1] <= x[1] /\ x[1] <= y[2]
              /\ \A x \in chosen : \A y \in EmailSpans(s) : y[1] = x[1] => y[2] <= x[2]
              /\ ret.value = [m \in 1..Cardinality(chosen) |->
                                 SubSeq(s, LeftToRight(chosen)[m][1], LeftToRight(chosen)[m][2])]
        /\ input = ContactText => ret.value = <<JohnEmail, SupportEmail>>

\* extract_emails() on a text that holds the same address twice
C10_Witness ==
    /\ ret.op = "extract_emails"
    /\ Len(ret.value) = 2
    /\ ret.value[1] = ret.value[2]

----------------------------------------------------------------------------
(* The InfoExtractor as a state machine over texts of one or two tokens of    *)
(* each kind the registry knows                                               *)

\* the tokens of each kind: a@b.co; http://a.b; +1-800-555-0199, 555-123-4567;
\* 1/2/23, 2024-12-25; 14:30, 2:30 PM; $1,299.99, SAR 50; #AI; @bob;
\* 192.168.1.1; 12345
FieldTokens ==
    {{<<"a","@","b",".","c","o">>},
     {<<"h","t","t","p",":","/","/","a",".","b">>},
     {<<"+","1","-","8","0","0","-","5","5","5","-","0","1","9","9">>, <<"5","5","5","-","1","2","3","-","4","5","6","7">>},
     {<<"1","/","2","/","2","3">>, <<"2","0","2","4","-","1","2","-","2","5">>},
     {<<"1","4",":","3","0">>, <<"2",":","3","0"," ","P","M">>},
     {<<"$","1",",","2","9","9",".","9","9">>, <<"S","A","R"," ","5","0">>},
     {<<"#","A","I">>},
     {<<"@","b","o","b">>},
     {<<"1","9","2",".","1","6","8",".","1",".","1">>},
     {<<"1","2","3","4","5">>}}

\* the empty text, one token, or two tokens of one kind with a space between them
ExtractorTexts ==
    {<<>>} \cup UNION FieldTokens
           \cup UNION {{p \o <<" ">> \o q : p \in kind, q \in kind} : kind \in FieldTokens}

InitExtractor == \E t \in ExtractorTexts : Constructed(t)

SpecExtractor == InitExtractor /\ [][NextExtractor]_vars

\* the patterns of the registry each key of extract_all()'s dictionary is built from
FieldPatterns ==
    [emails |-> {"email"},
     urls |-> {"url"},
     phones |-> {"phone_intl", "phone_us"},
     dates |-> {"date_slash", "date_dash"},
     times |-> {"time_24h", "time_12h"},
     currency |-> {"currency_usd", "currency_sar"},
     hashtags |-> {"hashtag"},
     mentions |-> {"mention"},
     credit_cards |-> {"credit_card"},
     ip_addresses |-> {"ipv4"}]

\* C11: the dictionary extract_all() returns has the same keys for every text,
\* the empty text included, each key holds a list, and every pattern of the
\* registry feeds one of the keys.
C11_EveryRegistryFieldHasKey ==
    ret.op = "extract_all" =>
        /\ DOMAIN ret.value = DOMAIN FieldPatterns
        /\ \A f \in DOMAIN ret.value : DOMAIN ret.value[f] = 1..Len(ret.value[f])
        /\ \A p \in DOMAIN patterns : \E f \in DOMAIN ret.value : p \in FieldPatterns[f]

\* the key of extract_all()'s dictionary each unmasked accessor fills
AccessorField ==
    [extract_emails |-> "emails",
     extract_urls |-> "urls",
     extract_phones |-> "phones",
     extract_dates |-> "dates",
     extract_times |-> "times",
     extract_currency |-> "currency",
     extract_hashtags |-> "hashtags",
     extract_mentions |-> "mentions",
     extract_ip_addresses |-> "ip_addresses"]

\* the pattern r matches the text v from its first to its last character
FullMatch(r, v) == \E k \in DOMAIN Ends(r, v, 1) : Ends(r, v, 1)[k] = Len(v) + 1

IsSubstring(v, s) ==
    \E i \in 1..(Len(s) + 1) : \E j \in (i - 1)..Len(s) : SubSeq(s, i, j) = v

\* C12: every string an unmasked accessor returns is a contiguous substring of
\* the held text and, taken whole, matches one of the patterns of its field
\* type; a time extract_times() returns is the whole matched time.
C12_ResultsAreWholeMatches ==
    ret.op \in DOMAIN AccessorField =>
        \A k \in DOMAIN ret.value :
            /\ IsSubstring(ret.value[k], extractor.text)
            /\ \E p \in FieldPatterns[AccessorField[ret.op]] :
                  FullMatch(patterns[p], ret.value[k])

\* the string v stands in s from position i on
OccursAt(v, s, i) == i + Len(v) - 1 <= Len(s) /\ SubSeq(s, i, i + Len(v) - 1) = v

\* C13: the list an accessor other than extract_phones() returns is in the
\* order of the text, duplicates kept: its entries stand in the held text at
\* positions that never decrease along the list; this holds for the accessors
\* that read two patterns (dates, times, currency) too.
C13_ResultsInTextOrder ==
    ret.op \in (DOMAIN AccessorField \ {"extract_phones"}) =>
        \E at \in [DOMAIN ret.value -> DOMAIN extractor.text] :
            /\ \A k \in DOMAIN ret.value : OccursAt(ret.value[k], extractor.text, at[k])
            /\ \A k \in 1..(Len(ret.value) - 1) : at[k] <= at[k + 1]

----------------------------------------------------------------------------
(* The command-line driver (cli.py): the imports, main() and the stages of   *)
(* process_text, one action per stage.  The variable cli holds the arguments, *)
(* the locals text and original_text and what each stage produced; cleaner    *)
(* and extractor hold the TextCleaner and InfoExtractor the stages build.     *)

\* "", "a@b.co <b>Hi", "A  +"
CliTexts ==
    {<<>>,
     <<"a","@","b",".","c","o"," ","<","b",">","H","i">>,
     <<"A"," "," ","+">>}

\* the parsed arguments: --file is absent, or names a file that is readable,
\* missing or unreadable; --text is absent or the given string
CliArgs(t) ==
    [file : {"none", "ok", "missing", "unreadable"},
     text : {None, Some(t)},
     clean : BOOLEAN, lowercase : BOOLEAN, process : BOOLEAN,
     extract_info : BOOLEAN, extract_entities : BOOLEAN, output : BOOLEAN]

\* len(sys.argv) == 1
NoArguments(args) ==
    /\ args.file = "none" /\ args.text = None
    /\ ~args.clean /\ ~args.lowercase /\ ~args.process
    /\ ~args.extract_info /\ ~args.extract_entities /\ ~args.output

InitCli ==
    \E t \in CliTexts : \E args \in CliArgs(t) :
        /\ input = t
        /\ cleaner = Unbuilt
        /\ extractor = Unbuilt
        /\ calls = <<>>
        /\ prev = Unbuilt
        /\ ret = [op |-> "__init__", value |-> "self"]
        /\ held = None
        /\ classifier = Unbuilt
        /\ files = NoFiles
        /\ ner = Unbuilt
        /\ cli = [pc |-> "import", args |-> args, text |-> None,
                  original_text |-> None, processed |-> None, all_info |-> None,
                  ner_input |-> None, entities |-> "none", saved |-> None,
                  reported |-> {}, exit |-> None]

\* the process ends with an exit code
Exited(r, code, message) ==
    [r EXCEPT !.pc = "exited", !.exit = Some(code), !.reported = @ \cup message]

CliStep(r) ==
    /\ cli' = r
    /\ UNCHANGED <<input, cleaner, extractor, calls, prev, ret, held, classifier, files, ner>>

\* the module imports: text_processor and ner_extractor import nltk and spacy
\* at module level, so without the backend installed the import raises and
\* the interpreter exits with a traceback
CliImport ==
    /\ cli.pc = "import"
    /\ \E installed \in BOOLEAN :
          CliStep(IF installed THEN [cli EXCEPT !.pc = "main"]
                  ELSE Exited(cli, 1, {"ModuleNotFoundError"}))

\* main() up to the call of process_text
CliMain ==
    /\ cli.pc = "main"
    /\ CliStep(IF NoArguments(cli.args) THEN Exited(cli, 0, {"help"})
               ELSE [cli EXCEPT !.pc = "read"])

\* process_text: read the input
CliRead ==
    /\ cli.pc = "read"
    /\ LET args == cli.args
           loaded == [cli EXCEPT !.pc = "clean", !.text = Some(input),
                                 !.original_text = Some(input)]
       IN CliStep(CASE args.file = "ok" -> loaded
                    [] args.file = "missing" -> Exited(cli, 1, {"File not found"})
                    [] args.file = "unreadable" -> Exited(cli, 1, {"Error reading file"})
                    [] OTHER -> IF args.text # None /\ The(args.text) # <<>> THEN loaded
                                ELSE Exited(cli, 1, {"Please provide either --file or --text"}))

\* the chain of the clean stage
CliCleaned(text) ==
    normalize_whitespace(normalize_unicode(remove_special_characters(
        remove_phone_numbers(remove_emails(remove_urls(remove_html_tags(
            TextCleaner(text))))), TRUE)))

\* process_text, step 1
CliClean ==
    /\ cli.pc = "clean"
    /\ IF cli.args.clean
       THEN LET c == CliCleaned(The(cli.text))
                text == get_cleaned_text(c)
            IN /\ cleaner' = c
               /\ cli' = [cli EXCEPT !.pc = "process",
                             !.text = Some(IF cli.args.lowercase THEN StrLower(text) ELSE text)]
       ELSE /\ cleaner' = cleaner
            /\ cli' = [cli EXCEPT !.pc = "process"]
    /\ UNCHANGED <<input, extractor, calls, prev, ret, held, classifier, files, ner>>

\* process_text, step 2: the TextProcessor works on text; an exception it
\* raises reaches main(), which exits with 1
CliProcess ==
    /\ cli.pc = "process"
    /\ IF cli.args.process
       THEN \E ok \in BOOLEAN :
               CliStep(IF ok THEN [cli EXCEPT !.pc = "extract_info", !.processed = cli.text]
                       ELSE Exited(cli, 1, {"Unexpected error"}))
       ELSE CliStep([cli EXCEPT !.pc = "extract_info"])

\* what the pipeline hands to the InfoExtractor, had it been the cleaned text
CleanedExtractionInput(r) == The(r.text)

\* what the pipeline hands to the InfoExtractor
ExtractionInput(r) == The(r.original_text)

\* process_text, step 3
CliExtractInfo ==
    /\ cli.pc = "extract_info"
    /\ IF cli.args.extract_info
       THEN /\ extractor' = InfoExtractor(ExtractionInput(cli))
            /\ \E d \in extract_all(InfoExtractor(ExtractionInput(cli))) :
                  cli' = [cli EXCEPT !.pc = "extract_entities", !.all_info = Some(d)]
       ELSE /\ extractor' = extractor
            /\ cli' = [cli EXCEPT !.pc = "extract_entities"]
    /\ UNCHANGED <<input, cleaner, calls, prev, ret, held, classifier, files, ner>>

\* process_text, step 4: NERExtractor() or a call on it may raise (the model
\* cannot be loaded, the model fails on the text, the visualization cannot be
\* written); the handler reports it and the run goes on
CliExtractEntities ==
    /\ cli.pc = "extract_entities"
    /\ IF cli.args.extract_entities
       THEN \E outcome \in {"found", "empty", "load_failed", "run_failed"} :
               CliStep([cli EXCEPT
                   !.pc = "save",
                   !.ner_input = IF outcome = "load_failed" THEN None ELSE cli.original_text,
                   !.entities = IF outcome \in {"found", "empty"} THEN outcome ELSE "failed",
                   !.reported = IF outcome \in {"found", "empty"} THEN @
                                ELSE @ \cup {"NER extraction failed"}])
       ELSE CliStep([cli EXCEPT !.pc = "save"])

\* process_text: save the output, then "PIPELINE COMPLETE"; main() returns
CliSave ==
    /\ cli.pc = "save"
    /\ IF cli.args.output
       THEN \E ok \in BOOLEAN :
               CliStep(IF ok THEN [cli EXCEPT !.pc = "complete", !.saved = cli.text, !.exit = Some(0)]
                       ELSE Exited(cli, 1, {"Unexpected error"}))
       ELSE CliStep([cli EXCEPT !.pc = "complete", !.exit = Some(0)])

\* KeyboardInterrupt while process_text runs
CliInterrupt ==
    /\ cli.pc \in {"read", "clean", "process", "extract_info", "extract_entities", "save"}
    /\ CliStep(Exited(cli, 0, {"Interrupted by user"}))

NextCli ==
    \/ CliImport \/ CliMain \/ CliRead \/ CliClean \/ CliProcess
    \/ CliExtractInfo \/ CliExtractEntities \/ CliSave \/ CliInterrupt

SpecCli == InitCli /\ [][NextCli]_vars

----------------------------------------------------------------------------
(* Properties of the command-line driver (SpecCli) *)

\* the text the clean stage leaves for the arguments args
CleanedFor(args) ==
    LET text == get_cleaned_text(CliCleaned(input))
    IN IF ~args.clean THEN input
       ELSE IF args.lowercase THEN StrLower(text) ELSE text

\* C14: with or without --clean, the InfoExtractor is built on the text as
\* read and the extraction result is one extract_all() gives for that text,
\* and the NER stage is handed the text as read; the TextProcessor and the
\* saved output get the text the clean stage left.
C14_ExtractionReadsOriginal ==
    /\ cli.all_info # None =>
          /\ extractor = InfoExtractor(input)
          /\ The(cli.all_info) \in extract_all(InfoExtractor(input))
    /\ cli.ner_input # None => cli.ner_input = Some(input)
    /\ cli.processed # None => cli.processed = Some(CleanedFor(cli.args))
    /\ cli.saved # None => cli.saved = Some(CleanedFor(cli.args))

\* a completed run with --clean, --process, --extract-info, --extract-entities
\* and --output on a text whose address the clean stage removed
C14_Witness ==
    /\ cli.pc = "complete"
    /\ cli.args.clean /\ cli.args.extract_info
    /\ The(cli.all_info).emails # <<>>
    /\ cli.ner_input = Some(input)
    /\ cli.processed # None /\ cli.processed # Some(input)
    /\ cli.saved = cli.processed
    /\ extract_emails(InfoExtractor(The(cli.saved))) = <<>>

\* --file names a readable file, or --text gives a text that is not empty
InputGiven(args) ==
    \/ args.file = "ok"
    \/ args.file = "none" /\ args.text # None /\ The(args.text) # <<>>

\* C15: a run with --clean, --extract-info and --extract-entities on a given
\* input in which nothing but the entity capability failed (the backend is not
\* installed, or the model cannot be loaded or run) and that nobody
\* interrupted ends complete: the clean stage and the extraction stage were
\* done, the entity stage is reported as failed, and with --output the output
\* is written.
C15_EntityFailureDoesNotAbort ==
    ( /\ cli.pc \in {"exited", "complete"}
      /\ cli.args.clean /\ cli.args.extract_info /\ cli.args.extract_entities
      /\ InputGiven(cli.args)
      /\ cli.reported # {}
      /\ cli.reported \subseteq {"ModuleNotFoundError", "NER extraction failed"} ) =>
        /\ cli.pc = "complete"
        /\ cleaner # Unbuilt
        /\ cli.all_info # None
        /\ "NER extraction failed" \in cli.reported
        /\ cli.args.output => cli.saved # None

\* the messages of an input error and of a processing error in a stage
InputErrors ==
    {"File not found", "Error reading file", "Please provide either --file or --text"}

StageErrors == {"ModuleNotFoundError", "Unexpected error", "NER extraction failed"}

\* C16: a run that has ended exits with 0 when the user interrupted it, else
\* with 1 when an input error or a processing error of a stage was reported,
\* else (the run succeeded) with 0.
C16_ExitCodes ==
    cli.exit # None =>
        cli.exit = Some(IF "Interrupted by user" \in cli.reported THEN 0
                        ELSE IF cli.reported \cap (InputErrors \cup StageErrors) # {} THEN 1
                        ELSE 0)

----------------------------------------------------------------------------
(* Properties of remove_emails (SpecAt) *)

\* position k of s lies in a whitespace-delimited token that contains "@"
InAtToken(s, k) ==
    /\ s[k] \notin Whitespace
    /\ \E j \in DOMAIN s :
          /\ s[j] = "@"
          /\ \A m \in (IF j < k THEN j ELSE k)..(IF j < k THEN k ELSE j) : s[m] \notin Whitespace

\* C17: remove_emails() leaves the text before without the characters of its
\* whitespace-delimited tokens that contain "@", and nothing else is deleted;
\* no token of the text after contains "@".
C17_RemoveEmailsDeletesAtTokens ==
    LET t == cleaner.text
        p == prev.text
    IN ret.op = "remove_emails" =>
        /\ t = SelectSeq([k \in DOMAIN p |-> IF InAtToken(p, k) THEN <<>> ELSE <<p[k]>>],
                         LAMBDA x : x # <<>>)
        /\ \A k \in DOMAIN t : ~InAtToken(t, k)

----------------------------------------------------------------------------
(* Properties of remove_urls (SpecUrls) *)

\* s reads w from position i on
ReadsAt(s, i, w) ==
    /\ i + Len(w) - 1 <= Len(s)
    /\ \A k \in DOMAIN w : s[i + k - 1] = w[k]

\* the lengths of the prefixes "http://", "https://" and "www." that s reads
\* from position i on with a character other than whitespace behind
UrlPrefixesAt(s, i) ==
    {Len(w) : w \in {w \in {<<"h","t","t","p",":","/","/">>,
                            <<"h","t","t","p","s",":","/","/">>,
                            <<"w","w","w",".">>} :
                        /\ ReadsAt(s, i, w)
                        /\ i + Len(w) <= Len(s)
                        /\ s[i + Len(w)] \notin Whitespace}}

\* the spans <i, j> of s without whitespace that begin with such a prefix and
\* hold at least one more character
UrlSpans(s) ==
    {sp \in (DOMAIN s) \X (DOMAIN s) :
        /\ \E n \in UrlPrefixesAt(s, sp[1]) : sp[2] >= sp[1] + n
        /\ \A k \in sp[1]..sp[2] : s[k] \notin Whitespace}

\* C18: after remove_urls() the text has no "http://", "https://" or "www."
\* with a character other than whitespace behind it, and it is the text
\* before without the characters of pairwise disjoint spans that each begin
\* with such a prefix and hold no whitespace; chars_removed counts them.
C18_RemoveUrlsLeavesNoUrl ==
    LET t == cleaner.text
        p == prev.text
    IN ret.op = "remove_urls" =>
        /\ \A i \in DOMAIN t : UrlPrefixesAt(t, i) = {}
        /\ \E chosen \in SUBSET UrlSpans(p) :
              /\ \A a, b \in chosen : a # b => (a[1]..a[2]) \cap (b[1]..b[2]) = {}
              /\ t = SelectSeq([k \in DOMAIN p |-> IF k \in Covered(chosen) THEN "" ELSE p[k]],
                               LAMBDA x : x # "")
              /\ LastStep(cleaner).chars_removed = Cardinality(Covered(chosen))

\* remove_urls() on "Check https://example.com and www.test.com" leaves
\* "Check  and "
C18_Witness ==
    /\ ret.op = "remove_urls"
    /\ prev.text = CheckText
    /\ cleaner.text = <<"C","h","e","c","k"," "," ","a","n","d"," ">>

----------------------------------------------------------------------------
(* Properties of remove_phone_numbers (SpecPhoneTexts) *)

\* some substring of s matches the pattern r
HasMatch(r, s) == \E i \in DOMAIN s : MatchEnd(r, s, i) # 0

\* C19: after remove_phone_numbers() no substring of the text has the 3-3-4
\* digit grouping with optional "-" or "." separators, and none has the
\* grouping with the area code in parentheses.
C19_NoPhoneLeft ==
    ret.op = "remove_phone_numbers" =>
        /\ ~HasMatch(PhonePlainPattern, cleaner.text)
        /\ ~HasMatch(PhoneParenPattern, cleaner.text)

----------------------------------------------------------------------------
(* Properties of remove_special_characters (SpecSpecial) *)

\* the characters remove_special_characters keeps
KeptChars(keep_spaces) ==
    IF keep_spaces THEN Letters \cup Digits \cup Whitespace ELSE Letters \cup Digits

\* C20: after remove_special_characters(keep_spaces) every character of the
\* text is an ASCII letter, an ASCII digit or, with keep_spaces, whitespace;
\* the text is the text before without its other characters, in their order;
\* chars_removed counts them; and the same call once more changes nothing.
C20_OnlyLettersDigitsSpaces ==
    LET t == cleaner.text
        p == prev.text
    IN ret.op = "remove_special_characters" =>
        /\ \A k \in DOMAIN t : t[k] \in KeptChars(ret.keep_spaces)
        /\ t = SelectSeq(p, LAMBDA ch : ch \in KeptChars(ret.keep_spaces))
        /\ LastStep(cleaner).chars_removed =
              Cardinality({k \in DOMAIN p : p[k] \notin KeptChars(ret.keep_spaces)})
        /\ remove_special_characters(cleaner, ret.keep_spaces).text = t

\* remove_special_characters() on "Hello! @#$%^&*() World!!!" leaves
\* "Hello  World"
C20_Witness ==
    /\ ret.op = "remove_special_characters"
    /\ ret.keep_spaces
    /\ prev.text = HelloWorldText
    /\ cleaner.text = <<"H","e","l","l","o"," "," ","W","o","r","l","d">>
    /\ LastStep(cleaner).chars_removed = 13

----------------------------------------------------------------------------
(* extract_custom_pattern: the pattern is compiled at the call *)

\* "Invoice: INV-12345, INV-67890"
InvoiceText ==
    <<"I","n","v","o","i","c","e",":"," ","I","N","V","-","1","2","3","4","5",",",
      " ","I","N","V","-","6","7","8","9","0">>

\* the custom patterns of the calls: three that compile and two that do not
CustomPatterns == {"INV-\\d{5}", "INV-(\\d{5})", "\\d+", "INV-(\\d{5}", "[0-9"}

\* re.compile(pattern): the compiled pattern, or None where re.compile raises
\* re.error (missing parenthesis, unterminated character set)
Compile(pattern) ==
    CASE pattern = "INV-\\d{5}" -> Some(Cat(LitSeq(<<"I","N","V","-">>) \o <<D(5, 5)>>))
      [] pattern = "INV-(\\d{5})" -> Some(Cat(LitSeq(<<"I","N","V","-">>) \o <<Group(D(5, 5))>>))
      [] pattern = "\\d+" -> Some(Plus(Cls(Digits)))
      [] OTHER -> None

\* extract_custom_pattern(pattern): raises where the pattern does not compile,
\* else regex.findall(self.text)
extract_custom_pattern(e, pattern) ==
    LET regex == Compile(pattern)
    IN IF regex = None THEN [raised |-> TRUE, value |-> <<>>]
       ELSE [raised |-> FALSE, value |-> FindAll(The(regex), e.text)]

ExtractCustomPattern ==
    \E pattern \in CustomPatterns :
        LET out == extract_custom_pattern(extractor, pattern)
        IN /\ ret' = [op |-> "extract_custom_pattern", pattern |-> pattern,
                      raised |-> out.raised, value |-> out.value]
           /\ UNCHANGED <<input, cleaner, extractor, calls, prev, cli, held, classifier, files, ner>>

InitCustom == \E t \in ExtractorTexts \cup {InvoiceText} : Constructed(t)

NextCustom == ExtractCustomPattern \/ NextExtractor

SpecCustom == InitCustom /\ [][NextCustom]_vars

\* the substrings of s the pattern r matches, left to right
MatchesInOrder(r, s) ==
    LET sp == FindSpans(r, s)
    IN [k \in 1..Len(sp) |-> SubSeq(s, sp[k].start, sp[k].end - 1)]

\* what each accessor with one result returns on the extractor e
BuiltinResults(e) ==
    [extract_emails |-> extract_emails(e),
     extract_urls |-> extract_urls(e),
     extract_dates |-> extract_dates(e),
     extract_times |-> extract_times(e),
     extract_currency |-> extract_currency(e),
     extract_hashtags |-> extract_hashtags(e),
     extract_mentions |-> extract_mentions(e),
     extract_credit_cards |-> extract_credit_cards(e),
     extract_ip_addresses |-> extract_ip_addresses(e)]

\* C21: the extractor holds the text it was constructed with whatever custom
\* patterns were tried; extract_custom_pattern() raises exactly when the
\* pattern does not compile, and with a pattern that compiles it returns the
\* substrings the pattern matches, left to right; every accessor returns what
\* it returns on a fresh extractor of the same text, also after a failed call.
C21_CustomPatternFailsAtUse ==
    /\ extractor = InfoExtractor(input)
    /\ ret.op = "extract_custom_pattern" =>
          /\ ret.raised = (Compile(ret.pattern) = None)
          /\ ~ret.raised =>
                ret.value = MatchesInOrder(The(Compile(ret.pattern)), extractor.text)
    /\ ret.op \in DOMAIN BuiltinResults(extractor) =>
          ret.value = BuiltinResults(InfoExtractor(input))[ret.op]
    /\ ret.op = "extract_phones" => ret.value \in extract_phones(InfoExtractor(input))
    /\ ret.op = "extract_all" => ret.value \in extract_all(InfoExtractor(input))

----------------------------------------------------------------------------
(* get_summary: the rendering of extract_all() *)

\* str(n) of a natural number
RECURSIVE IntToStr(_)
IntToStr(n) ==
    LET digit == <<"0","1","2","3","4","5","6","7","8","9">>[(n % 10) + 1]
    IN IF n < 10 THEN <<digit>> ELSE IntToStr(n \div 10) \o <<digit>>

\* the keys of extract_all()'s dictionary in the order they are inserted
SummaryOrder ==
    <<[key |-> "emails", name |-> <<"e","m","a","i","l","s">>],
      [key |-> "urls", name |-> <<"u","r","l","s">>],
      [key |-> "phones", name |-> <<"p","h","o","n","e","s">>],
      [key |-> "dates", name |-> <<"d","a","t","e","s">>],
      [key |-> "times", name |-> <<"t","i","m","e","s">>],
      [key |-> "currency", name |-> <<"c","u","r","r","e","n","c","y">>],
      [key |-> "hashtags", name |-> <<"h","a","s","h","t","a","g","s">>],
      [key |-> "mentions", name |-> <<"m","e","n","t","i","o","n","s">>],
      [key |-> "credit_cards", name |-> <<"c","r","e","d","i","t","_","c","a","r","d","s">>],
      [key |-> "ip_addresses", name |-> <<"i","p","_","a","d","d","r","e","s","s","e","s">>]>>

SummaryTitle == <<"I","N","F","O","R","M","A","T","I","O","N"," ","E","X","T","R","A","C","T","I","O","N"," ","S","U","M","M","A","R","Y">>

SummaryRule == [k \in 1..60 |-> "="]

\* the entries get_summary appends for one key, showing every item
SummaryBlockAll(name, items) ==
    IF items = <<>> THEN <<>>
    ELSE <<<<"\n">> \o StrReplace(StrUpper(name), "_", " ") \o <<" ","(">>
               \o IntToStr(Len(items)) \o <<")",":">>>>
         \o [k \in 1..Len(items) |-> <<" "," ","-"," ">> \o items[k]]

\* the entries get_summary appends for one key
SummaryBlock(name, items) ==
    IF items = <<>> THEN <<>>
    ELSE <<<<"\n">> \o StrReplace(StrUpper(name), "_", " ") \o <<" ","(">>
               \o IntToStr(Len(items)) \o <<")",":">>>>
         \o [k \in 1..(IF Len(items) > 5 THEN 5 ELSE Len(items)) |->
                <<" "," ","-"," ">> \o items[k]]
         \o (IF Len(items) > 5
             THEN <<<<" "," ",".",".","."," ","a","n","d"," ">> \o IntToStr(Len(items) - 5) \o <<" ","m","o","r","e">>>>
             ELSE <<>>)

\* the summary of one extract_all() dictionary
SummaryOf(all_info) ==
    StrJoin(<<"\n">>,
            <<SummaryTitle, SummaryRule>>
            \o Flatten([k \in DOMAIN SummaryOrder |->
                            SummaryBlock(SummaryOrder[k].name, all_info[SummaryOrder[k].key])]))

\* get_summary(): one string for each order list(set(...)) can give the phones
get_summary(e) == {SummaryOf(d) : d \in extract_all(e)}

GetSummary == \E summary \in get_summary(extractor) : Extract("get_summary", summary)

\* #a, @b
SummaryTokens == {<<"#","a">>, <<"@","b">>}

InitSummary == \E t \in Sentences(SummaryTokens, MaxSummaryTokens) : Constructed(t)

NextSummary == GetSummary

SpecSummary == InitSummary /\ [][NextSummary]_vars

----------------------------------------------------------------------------
(* Properties of get_summary (SpecSummary) *)

\* the lines of s: what stands between two "\n"
SplitLines(s) ==
    LET nl == <<0>> \o SelectSeq(Indices(s), LAMBDA k : s[k] = "\n") \o <<Len(s) + 1>>
    IN [k \in 1..(Len(nl) - 1) |-> SubSeq(s, nl[k] + 1, nl[k + 1] - 1)]

\* the name a field is shown with, and its header line for k matches: "NAME (k):"
DisplayName(name) == StrReplace(StrUpper(name), "_", " ")

HeaderLine(name, k) == DisplayName(name) \o <<" ","(">> \o IntToStr(k) \o <<")",":">>

ItemLine(item) == <<" "," ","-"," ">> \o item

MoreLine(n) == <<" "," ",".",".","."," ","a","n","d"," ">> \o IntToStr(n) \o <<" ","m","o","r","e">>

\* C22: for one of the dictionaries extract_all() can return, the summary has
\* a header line for a field exactly when the field has matches, the header
\* shows the number k of matches, the lines behind it show the first min(k, 5)
\* matches in list order, then one line "... and k-5 more" exactly when k > 5,
\* and then the section ends; the summary has no other line "... and N more".
C22_SummaryShowsFirstFive ==
    ret.op = "get_summary" =>
        \E d \in extract_all(extractor) :
            LET L == SplitLines(ret.value)
            IN /\ \A f \in DOMAIN SummaryOrder :
                    LET items == d[SummaryOrder[f].key]
                        k == Len(items)
                        shown == IF k > 5 THEN 5 ELSE k
                        shows(h) ==
                            /\ h + shown + (IF k > 5 THEN 1 ELSE 0) <= Len(L)
                            /\ \A i \in 1..shown : L[h + i] = ItemLine(items[i])
                            /\ k > 5 => L[h + 6] = MoreLine(k - 5)
                            /\ LET next == h + shown + (IF k > 5 THEN 1 ELSE 0) + 1
                               IN next <= Len(L) => L[next] = <<>>
                    IN IF k = 0
                       THEN \A h \in DOMAIN L :
                               ~ReadsAt(L[h], 1, DisplayName(SummaryOrder[f].name) \o <<" ","(">>)
                       ELSE /\ Cardinality({h \in DOMAIN L :
                                   L[h] = HeaderLine(SummaryOrder[f].name, k)}) = 1
                            /\ \A h \in DOMAIN L :
                                   L[h] = HeaderLine(SummaryOrder[f].name, k) => shows(h)
               /\ Cardinality({h \in DOMAIN L : ReadsAt(L[h], 1, <<" "," ",".",".","."," ","a","n","d"," ">>)})
                    = Cardinality({f \in DOMAIN SummaryOrder : Len(d[SummaryOrder[f].key]) > 5})

\* get_summary() on "#a #a #a #a @b #a #a": six hashtags, of which five are
\* shown, and one mention
C22_Witness ==
    /\ ret.op = "get_summary"
    /\ extractor.text = <<"#","a"," ","#","a"," ","#","a"," ","#","a"," ","@","b"," ","#","a"," ","#","a">>
    /\ ret.value = <<"I","N","F","O","R","M","A","T","I","O","N"," ","E","X","T","R","A","C","T","I","O","N"," ","S","U","M","M","A","R","Y","\n","=","=","=","=","=","=","=","=","=","=","=","=","=","=","=","=","=","=","=","=","=","=","=","=","=","=","=","=","=","=","=","=","=","=","=","=","=","=","=","=","=","=","=","=","=","=","=","=","=","=","=","=","=","=","=","=","=","=","=","=","\n","\n","H","A","S","H","T","A","G","S"," ","(","6",")",":","\n"," "," ","-"," ","#","a","\n"," "," ","-"," ","#","a","\n"," "," ","-"," ","#","a","\n"," "," ","-"," ","#","a","\n"," "," ","-"," ","#","a","\n"," "," ",".",".","."," ","a","n","d"," ","1"," ","m","o","r","e","\n","\n","M","E","N","T","I","O","N","S"," ","(","1",")",":","\n"," "," ","-"," ","@","b">>

----------------------------------------------------------------------------
(* The TextClassifier (text_classifier.py).  The vectorizer and the model are *)
(* scikit-learn objects: what fitting stores in them is kept as the           *)
(* vocabulary and the words seen for each class, and a prediction is a        *)
(* function of these two states and the text alone.                           *)

Algorithms == {"naive_bayes", "logistic_regression", "svm"}

VectorizerTypes == {"tfidf", "count"}

\* max_features: the default and one other value
MaxFeatureChoices == {5000, 100}

\* training data: lists of (text, label); the second has one class only
TrainingSets ==
    {<<[text |-> "good", label |-> "pos"], [text |-> "bad", label |-> "neg"],
       [text |-> "fine", label |-> "pos"], [text |-> "poor", label |-> "neg"]>>,
     <<[text |-> "spam", label |-> "spam"], [text |-> "offer", label |-> "spam"]>>}

QueryTexts == {"good", "poor", "spam", "new"}

ModelPaths == {"a.pkl"}

\* TextClassifier(algorithm, vectorizer_type, max_features)
TextClassifier(algorithm, vectorizer_type, max_features) ==
    [algorithm |-> algorithm,
     vectorizer_type |-> vectorizer_type,
     max_features |-> max_features,
     vectorizer |-> [kind |-> IF vectorizer_type = "tfidf" THEN "TfidfVectorizer"
                              ELSE "CountVectorizer",
                     max_features |-> max_features, vocabulary |-> None],
     model |-> [kind |-> algorithm, fitted |-> None],
     is_trained |-> FALSE,
     classes |-> None]

\* vectorizer.fit_transform(X_train): the vocabulary of the training texts
FitVectorizer(v, data) ==
    [v EXCEPT !.vocabulary = Some({data[k].text : k \in DOMAIN data})]

\* the labels of the data, model.classes_
ClassesOf(data) == {data[k].label : k \in DOMAIN data}

\* model.fit(X_train_vec, y_train): the words seen for each class
FitModel(m, data) ==
    [m EXCEPT !.fitted =
        Some([c \in ClassesOf(data) |-> {data[k].text : k \in {j \in DOMAIN data : data[j].label = c}}])]

\* model.predict(vectorizer.transform([text]))[0]
PredictOne(v, m, text) ==
    LET seen == The(m.fitted)
        known == {c \in DOMAIN seen : text \in The(v.vocabulary) /\ text \in seen[c]}
    IN IF known # {} THEN CHOOSE c \in known : TRUE
       ELSE CHOOSE c \in DOMAIN seen : \A d \in DOMAIN seen : Cardinality(seen[c]) >= Cardinality(seen[d])

\* the result of a call on the classifier: the value it returns, or the error it raises
Returned(op, value) == [op |-> op, raised |-> "none", value |-> value]
Raised(op, error) == [op |-> op, raised |-> error, value |-> None]

ClassifierCall(c, r) ==
    /\ classifier' = c
    /\ prev' = classifier
    /\ ret' = r
    /\ UNCHANGED <<input, cleaner, extractor, calls, cli, held, files, ner>>

\* train(texts, labels): train_test_split may raise before anything is
\* assigned; fit_transform refits the vectorizer; model.fit may raise (one class
\* only with logistic_regression or svm); is_trained and classes are assigned
\* behind model.fit; the evaluation behind them may raise as well
Train ==
    \E data \in TrainingSets : \E outcome \in {"split_failed", "trained", "evaluation_failed"} :
        LET v == FitVectorizer(classifier.vectorizer, data)
            fits == classifier.algorithm = "naive_bayes" \/ Cardinality(ClassesOf(data)) >= 2
        IN CASE outcome = "split_failed" ->
                  ClassifierCall(classifier, Raised("train", "ValueError"))
             [] outcome # "split_failed" /\ ~fits ->
                  ClassifierCall([classifier EXCEPT !.vectorizer = v], Raised("train", "ValueError"))
             [] OTHER ->
                  ClassifierCall([classifier EXCEPT !.vectorizer = v,
                                                    !.model = FitModel(@, data),
                                                    !.is_trained = TRUE,
                                                    !.classes = Some(ClassesOf(data))],
                                 IF outcome = "trained" THEN Returned("train", "metrics")
                                 ELSE Raised("train", "ValueError"))

Predict ==
    \E text \in QueryTexts :
        ClassifierCall(classifier,
            IF ~classifier.is_trained THEN Raised("predict", "Model not trained")
            ELSE Returned("predict", <<PredictOne(classifier.vectorizer, classifier.model, text)>>))

\* LinearSVC has no predict_proba
PredictProba ==
    \E text \in QueryTexts :
        ClassifierCall(classifier,
            IF ~classifier.is_trained THEN Raised("predict_proba", "Model not trained")
            ELSE IF classifier.model.kind = "svm"
                 THEN Raised("predict_proba", "doesn't support probability prediction")
                 ELSE Returned("predict_proba", "probabilities"))

\* get_top_features without the check of is_trained: list(None) raises
GetTopFeaturesUnchecked ==
    \E label \in {"pos", "spam", "other"} :
        ClassifierCall(classifier,
            IF classifier.classes = None THEN Raised("get_top_features", "TypeError")
            ELSE IF label \notin The(classifier.classes)
                 THEN Raised("get_top_features", "ValueError")
                 ELSE Returned("get_top_features", "features"))

\* list(self.classes).index(label) raises for a label that is no class
GetTopFeatures ==
    \E label \in {"pos", "spam", "other"} :
        ClassifierCall(classifier,
            IF ~classifier.is_trained THEN Raised("get_top_features", "Model not trained")
            ELSE IF label \notin The(classifier.classes)
                 THEN Raised("get_top_features", "ValueError")
                 ELSE Returned("get_top_features", "features"))

\* what save_model pickles
ModelData(c) ==
    [algorithm |-> c.algorithm, vectorizer |-> c.vectorizer, model |-> c.model,
     classes |-> c.classes]

\* save_model(filepath): the file holds the pickled model_data (by: the
\* classifier that wrote it, as it was)
SaveModel ==
    \E filepath \in ModelPaths :
        /\ classifier' = classifier
        /\ prev' = classifier
        /\ IF ~classifier.is_trained
           THEN /\ ret' = Raised("save_model", "Model not trained")
                /\ files' = files
           ELSE /\ ret' = Returned("save_model", None)
                /\ files' = [p \in DOMAIN files \cup {filepath} |->
                                IF p = filepath
                                THEN [model_data |-> ModelData(classifier), by |-> classifier]
                                ELSE files[p]]
        /\ UNCHANGED <<input, cleaner, extractor, calls, cli, held, ner>>

\* TextClassifier.load_model(filepath): a new classifier of the pickled
\* algorithm, built with the default vectorizer_type and max_features, which
\* then gets the pickled vectorizer, model and classes
load_model(model_data) ==
    [TextClassifier(model_data.algorithm, "tfidf", 5000) EXCEPT
        !.vectorizer = model_data.vectorizer,
        !.model = model_data.model,
        !.classes = model_data.classes,
        !.is_trained = TRUE]

\* the caller goes on with the classifier load_model returns
LoadModel ==
    \E filepath \in ModelPaths :
        /\ prev' = classifier
        /\ IF filepath \in DOMAIN files
           THEN /\ classifier' = load_model(files[filepath].model_data)
                /\ ret' = [op |-> "load_model", raised |-> "none", value |-> filepath]
           ELSE /\ classifier' = classifier
                /\ ret' = Raised("load_model", "FileNotFoundError")
        /\ UNCHANGED <<input, cleaner, extractor, calls, cli, held, files, ner>>

InitClassifier ==
    \E algorithm \in Algorithms, vectorizer_type \in VectorizerTypes,
       max_features \in MaxFeatureChoices :
        /\ classifier = TextClassifier(algorithm, vectorizer_type, max_features)
        /\ prev = TextClassifier(algorithm, vectorizer_type, max_features)
        /\ files = NoFiles
        /\ input = <<>>
        /\ cleaner = Unbuilt
        /\ extractor = Unbuilt
        /\ calls = <<>>
        /\ ret = [op |-> "__init__", raised |-> "none", value |-> "self"]
        /\ cli = NoRun
        /\ held = None
        /\ ner = Unbuilt

NextClassifier ==
    \/ Train \/ Predict \/ PredictProba \/ GetTopFeatures \/ SaveModel \/ LoadModel

SpecClassifier == InitClassifier /\ [][NextClassifier]_vars

----------------------------------------------------------------------------
(* Properties of the TextClassifier (SpecClassifier) *)

\* the calls that check is_trained first
NeedsTraining == {"predict", "predict_proba", "get_top_features", "save_model"}

\* C23: predict, predict_proba, get_top_features and save_model on a
\* classifier that is not trained raise "Model not trained" and leave the
\* classifier as it was, is_trained false and classes unset; predict on a
\* trained classifier does not raise that error; is_trained turns true only in
\* a train() call that fitted the model or in load_model; and a trained
\* classifier stays trained.
C23_UntrainedCallsFail ==
    /\ []((ret.op \in NeedsTraining /\ ~prev.is_trained) =>
             /\ ret.raised = "Model not trained"
             /\ classifier = prev
             /\ ~classifier.is_trained
             /\ classifier.classes = None)
    /\ []((ret.op = "predict" /\ prev.is_trained) => ret.raised # "Model not trained")
    /\ [][(~classifier.is_trained /\ classifier'.is_trained) =>
             \/ ret'.op = "train" /\ classifier'.model.fitted # None
             \/ ret'.op = "load_model" /\ ret'.raised = "none"]_vars
    /\ [][classifier.is_trained => classifier'.is_trained]_vars

\* save_model on a classifier whose train() failed in model.fit, behind the
\* fit of the vectorizer: it is still not trained and the call raises
C23_Witness ==
    /\ ret.op = "save_model"
    /\ ret.raised = "Model not trained"
    /\ classifier.vectorizer.vocabulary # None
    /\ ~classifier.is_trained
    /\ files = NoFiles

\* C24: the classifier load_model() returns for a file save_model() wrote is
\* trained, has the algorithm, the vectorizer, the model and the classes of
\* the classifier that wrote the file, has its vectorizer_type and
\* max_features, and predicts what that classifier predicted for every text.
C24_LoadRestoresSaved ==
    (ret.op = "load_model" /\ ret.raised = "none") =>
        LET c == files[ret.value].by
        IN /\ classifier.is_trained
           /\ classifier.algorithm = c.algorithm
           /\ classifier.vectorizer = c.vectorizer
           /\ classifier.model = c.model
           /\ classifier.classes = c.classes
           /\ \A text \in QueryTexts :
                 PredictOne(classifier.vectorizer, classifier.model, text)
                     = PredictOne(c.vectorizer, c.model, text)
           /\ classifier.vectorizer_type = c.vectorizer_type
           /\ classifier.max_features = c.max_features

----------------------------------------------------------------------------
(* TextProcessor.get_word_frequency *)

MaxTokens == 3

\* a dict is the sequence of its items in insertion order
RECURSIVE KeyIndex(_, _, _)
KeyIndex(d, key, k) ==
    IF k > Len(d) THEN 0
    ELSE IF d[k].key = key THEN k
    ELSE KeyIndex(d, key, k + 1)

\* freq[word_lower] = freq.get(word_lower, 0) + 1
Counted(freq, word_lower) ==
    LET k == KeyIndex(freq, word_lower, 1)
    IN IF k = 0 THEN Append(freq, [key |-> word_lower, value |-> 1])
       ELSE [freq EXCEPT ![k].value = @ + 1]

\* the loop of get_word_frequency over the first n tokens
RECURSIVE CountWords(_, _)
CountWords(tokens, n) ==
    IF n = 0 THEN <<>>
    ELSE Counted(CountWords(tokens, n - 1), StrLower(tokens[n]))

\* the loop on the tokens as they are
RECURSIVE CountWordsCased(_, _)
CountWordsCased(tokens, n) ==
    IF n = 0 THEN <<>>
    ELSE Counted(CountWordsCased(tokens, n - 1), tokens[n])

\* sorted(items, key=lambda x: x[1], reverse=True): the sort is stable, and
\* with reverse=True items of equal key keep their order
RECURSIVE SortedByCount(_, _)
SortedByCount(items, n) ==
    IF n = 0 THEN <<>>
    ELSE LET done == SortedByCount(items, n - 1)
             item == items[n]
             ahead == Cardinality({k \in 1..Len(done) : done[k].value >= item.value})
         IN SubSeq(done, 1, ahead) \o <<item>> \o SubSeq(done, ahead + 1, Len(done))

get_word_frequency_cased(tokens) ==
    LET freq == CountWordsCased(tokens, Len(tokens))
    IN SortedByCount(freq, Len(freq))

get_word_frequency(tokens) ==
    LET freq == CountWords(tokens, Len(tokens))
    IN SortedByCount(freq, Len(freq))

CatDogTokens ==
    << <<"c","a","t">>, <<"d","o","g">>, <<"c","a","t">>, <<"b","i","r","d">>,
       <<"c","a","t">>, <<"d","o","g">> >>

FrequencyWords == { <<"a","b">>, <<"A","b">>, <<"a","B">>, <<"c">>, <<"C">> }

TokenLists == SeqsUpTo(FrequencyWords, MaxTokens) \cup {CatDogTokens}

GetWordFrequency ==
    \E tokens \in TokenLists :
        /\ ret' = [op |-> "get_word_frequency", tokens |-> tokens,
                   value |-> get_word_frequency(tokens)]
        /\ UNCHANGED <<input, cleaner, extractor, calls, prev, cli, held,
                       classifier, files, ner>>

InitFrequency == Constructed(StrJoin(<<" ">>, CatDogTokens))

NextFrequency == GetWordFrequency

SpecFrequency == InitFrequency /\ [][NextFrequency]_vars

\* the positions of the tokens that equal key when case is ignored
Occurrences(tokens, key) == {k \in 1..Len(tokens) : StrLower(tokens[k]) = key}

FirstOccurrence(tokens, key) ==
    CHOOSE k \in Occurrences(tokens, key) : \A j \in Occurrences(tokens, key) : k <= j

RECURSIVE SumValues(_, _)
SumValues(d, n) == IF n = 0 THEN 0 ELSE SumValues(d, n - 1) + d[n].value

\* C25: get_word_frequency counts tokens case-insensitively: every key is a
\* lower-cased token and occurs once, every token has its key, the value of a
\* key is the number of tokens equal to it when case is ignored, the values
\* sum to the number of tokens, and the entries are in order of non-increasing
\* count, entries of equal count in order of first occurrence.
C25_WordFrequency ==
    ret.op = "get_word_frequency" =>
        LET tokens == ret.tokens
            freq == ret.value
        IN /\ \A i \in DOMAIN freq :
                 /\ Occurrences(tokens, freq[i].key) # {}
                 /\ freq[i].value = Cardinality(Occurrences(tokens, freq[i].key))
                 /\ \A j \in DOMAIN freq : freq[j].key = freq[i].key => j = i
           /\ \A k \in DOMAIN tokens :
                 \E i \in DOMAIN freq : freq[i].key = StrLower(tokens[k])
           /\ SumValues(freq, Len(freq)) = Len(tokens)
           /\ \A i, j \in DOMAIN freq :
                 i < j =>
                    \/ freq[i].value > freq[j].value
                    \/ /\ freq[i].value = freq[j].value
                       /\ FirstOccurrence(tokens, freq[i].key)
                              < FirstOccurrence(tokens, freq[j].key)

\* "cat dog cat bird cat dog" gives cat 3, dog 2, bird 1
C25_Witness ==
    /\ ret.op = "get_word_frequency"
    /\ ret.tokens = CatDogTokens
    /\ ret.value = << [key |-> <<"c","a","t">>, value |-> 3],
                      [key |-> <<"d","o","g">>, value |-> 2],
                      [key |-> <<"b","i","r","d">>, value |-> 1] >>

----------------------------------------------------------------------------
(* Order of the results of the accessors with two patterns (SpecExtractor) *)

\* the hour of a time: the characters before its colon
HourOf(time) == SubSeq(time, 1, IndexOf(time, ":") - 1)

----------------------------------------------------------------------------
(* NERExtractor. The spaCy pipeline is a function from a text to its          *)
(* entities; two texts with entities, one without and the empty text stand    *)
(* for its inputs.                                                            *)

TimCookText == "Tim Cook leads Apple"
ParisText == "Visit Paris in May"
NerTexts == {"", "hello", TimCookText, ParisText}

\* self.nlp(text).ents as extract() records them (start and end left out)
Ents(text) ==
    CASE text = TimCookText -> << [text |-> "Tim Cook", label |-> "PERSON"],
                                  [text |-> "Apple", label |-> "ORG"] >>
      [] text = ParisText -> << [text |-> "Paris", label |-> "GPE"],
                                [text |-> "May", label |-> "DATE"] >>
      [] OTHER -> <<>>

\* NERExtractor() with the model installed
NERExtractor == [built |-> TRUE, doc |-> None, entities |-> <<>>]

\* extract(text): the extractor afterwards
extract(n, text) == [n EXCEPT !.doc = Some(text), !.entities = Ents(text)]

\* `if text: self.extract(text)`: None and the empty string are both false
Extracted(n, text) ==
    IF text # None /\ The(text) # "" THEN extract(n, The(text)) ELSE n

\* [ent['text'] for ent in self.entities if ent['label'] == label]
TextsWithLabel(entities, label) ==
    LET hits == SelectSeq(entities, LAMBDA ent : ent.label = label)
    IN [k \in DOMAIN hits |-> hits[k].text]

\* dict(Counter(labels)): the labels in order of first occurrence
RECURSIVE CountLabels(_, _)
CountLabels(entities, n) ==
    IF n = 0 THEN <<>>
    ELSE Counted(CountLabels(entities, n - 1), entities[n].label)

get_entity_counts(entities) == CountLabels(entities, Len(entities))

\* the first n items of a list as a set: set(items[:n])
FirstSet(items, n) == {items[k] : k \in 1..(IF Len(items) < n THEN Len(items) ELSE n)}

\* what get_summary() puts into its lines: the total, the counts by falling
\* count, and per kind the set of the first names and how many more there are
SummaryOfEntities(entities) ==
    LET counts == get_entity_counts(entities)
        persons == TextsWithLabel(entities, "PERSON")
        orgs == TextsWithLabel(entities, "ORG")
        locations == TextsWithLabel(entities, "GPE")
    IN [total |-> Len(entities),
        counts |-> SortedByCount(counts, Len(counts)),
        people |-> FirstSet(persons, 5),
        people_more |-> IF Len(persons) > 5 THEN Len(persons) - 5 ELSE 0,
        organizations |-> FirstSet(orgs, 5),
        organizations_more |-> IF Len(orgs) > 5 THEN Len(orgs) - 5 ELSE 0,
        locations |-> FirstSet(locations, 5),
        locations_more |-> IF Len(locations) > 5 THEN Len(locations) - 5 ELSE 0,
        dates |-> FirstSet(TextsWithLabel(entities, "DATE"), 5),
        money |-> FirstSet(TextsWithLabel(entities, "MONEY"), 3)]

NerLabels == {"PERSON", "EVENT"}

\* what the accessor op returns when the stored entities are `entities`
AccessorValue(op, label, entities) ==
    CASE op = "get_persons" -> TextsWithLabel(entities, "PERSON")
      [] op = "get_organizations" -> TextsWithLabel(entities, "ORG")
      [] op = "get_locations" -> TextsWithLabel(entities, "GPE")
      [] op = "get_dates" -> TextsWithLabel(entities, "DATE")
      [] op = "get_money" -> TextsWithLabel(entities, "MONEY")
      [] op = "get_by_label" -> TextsWithLabel(entities, label)
      [] op = "get_entity_counts" -> get_entity_counts(entities)
      [] op = "get_summary" -> SummaryOfEntities(entities)

\* the text argument of a call: None when left out
TextArguments == {None} \cup {Some(t) : t \in NerTexts}

NerCall(n, r) ==
    /\ ner.built
    /\ ner' = n
    /\ prev' = ner
    /\ ret' = r
    /\ UNCHANGED <<input, cleaner, extractor, calls, cli, held, classifier, files>>

NerExtract ==
    \E t \in NerTexts :
        NerCall(extract(ner, t),
                [op |-> "extract", text |-> Some(t), label |-> "", raised |-> FALSE,
                 value |-> Ents(t)])

Accessor(op, label) ==
    \E text \in TextArguments :
        LET n == Extracted(ner, text)
        IN NerCall(n, [op |-> op, text |-> text, label |-> label, raised |-> FALSE,
                       value |-> AccessorValue(op, label, n.entities)])

GetPersons == Accessor("get_persons", "")
GetOrganizations == Accessor("get_organizations", "")
GetLocations == Accessor("get_locations", "")
GetDates == Accessor("get_dates", "")
GetMoney == Accessor("get_money", "")
GetByLabel == \E label \in NerLabels : Accessor("get_by_label", label)
GetEntityCounts == Accessor("get_entity_counts", "")
GetNerSummary == Accessor("get_summary", "")

\* visualize(text): a text that is not empty replaces self.doc and nothing
\* else; displacy.render fails on the None self.doc is before any text
Visualize ==
    \E text \in TextArguments :
        LET doc == IF text # None /\ The(text) # "" THEN text ELSE ner.doc
        IN NerCall([ner EXCEPT !.doc = doc],
                   [op |-> "visualize", text |-> text, label |-> "",
                    raised |-> (doc = None),
                    value |-> IF doc = None THEN <<>> ELSE Ents(The(doc))])

InitNer ==
    /\ cli = NoRun
    /\ held = None
    /\ classifier = Unbuilt
    /\ files = NoFiles
    /\ input = <<>>
    /\ cleaner = TextCleaner(<<>>)
    /\ extractor = InfoExtractor(<<>>)
    /\ calls = <<>>
    /\ ner = NERExtractor
    /\ prev = NERExtractor
    /\ ret = [op |-> "__init__", text |-> None, label |-> "", raised |-> FALSE,
              value |-> "self"]

NextNer ==
    \/ NerExtract \/ GetPersons \/ GetOrganizations \/ GetLocations \/ GetDates
    \/ GetMoney \/ GetByLabel \/ GetEntityCounts \/ GetNerSummary \/ Visualize

SpecNer == InitNer /\ [][NextNer]_vars

AccessorNames ==
    {"get_persons", "get_organizations", "get_locations", "get_dates", "get_money",
     "get_by_label", "get_entity_counts", "get_summary"}

\* C27: an accessor called with a text returns the entities of that text; an
\* accessor called without one returns the stored entities and leaves them as
\* they are; after every call that was given a text (extract, an accessor,
\* visualize) the stored entities are those of that text; and before any
\* extraction the stored list is empty.
C27_EntitiesFollowLastText ==
    /\ (ret.op \in AccessorNames /\ ret.text # None) =>
           ret.value = AccessorValue(ret.op, ret.label, Ents(The(ret.text)))
    /\ (ret.op \in AccessorNames /\ ret.text = None) =>
           /\ ret.value = AccessorValue(ret.op, ret.label, prev.entities)
           /\ ner.entities = prev.entities
    /\ (ret.op \in AccessorNames \cup {"extract", "visualize"} /\ ret.text # None) =>
           ner.entities = Ents(The(ret.text))
    /\ ner.doc = None => ner.entities = <<>>

----------------------------------------------------------------------------
(* remove_html_tags called again (SpecHtml) *)

\* s holds a tag-like span: "<", one or more characters other than ">", ">"
HasTagSpan(s) ==
    \E i, j \in DOMAIN s :
        /\ i + 1 < j
        /\ s[i] = "<"
        /\ s[j] = ">"
        /\ \A k \in (i + 1)..(j - 1) : s[k] # ">"

\* C28: remove_html_tags is idempotent: after one call the cleaned text holds
\* no "<", one or more characters other than ">", ">"; every further call
\* leaves the text as it is and records chars_removed = 0.
C28_RemoveHtmlTagsIdempotent ==
    (Len(calls) >= 1 /\ \A k \in DOMAIN calls : calls[k] = "remove_html_tags") =>
        /\ ~HasTagSpan(cleaner.text)
        /\ (ret.op = "remove_html_tags" /\ Len(calls) >= 2) => cleaner.text = prev.text
        /\ \A k \in 2..Len(cleaner.cleaning_steps) :
              cleaner.cleaning_steps[k] = StepRecord("remove_html_tags", 0)

\* the second call on "<><a>b>": the first left "<>b>", the second removes nothing
C28_Witness ==
    /\ input = EmptyTagText
    /\ calls = <<"remove_html_tags", "remove_html_tags">>
    /\ cleaner.text = <<"<", ">", "b", ">">>
    /\ cleaner.cleaning_steps = <<StepRecord("remove_html_tags", 3),
                                  StepRecord("remove_html_tags", 0)>>

----------------------------------------------------------------------------
(* remove_extra_spaces against normalize_whitespace (SpecWhitespace) *)

\* C29: remove_extra_spaces and normalize_whitespace are the same transform
\* but for the name they log: whichever of the two was called, the other one
\* called on the same cleaner would have left the same text and logged the
\* same chars_removed, each under its own name.
C29_WhitespaceTransformsAgree ==
    ret.op \in {"normalize_whitespace", "remove_extra_spaces"} =>
        LET other == IF ret.op = "normalize_whitespace"
                     THEN remove_extra_spaces(prev)
                     ELSE normalize_whitespace(prev)
        IN /\ cleaner.text = other.text
           /\ get_cleaned_text(cleaner) = get_cleaned_text(other)
           /\ LastStep(cleaner).chars_removed = LastStep(other).chars_removed
           /\ get_report(cleaner).chars_removed = get_report(other).chars_removed
           /\ LastStep(cleaner).step = ret.op
           /\ LastStep(other).step # ret.op
           /\ Len(cleaner.cleaning_steps) = Len(other.cleaning_steps)

\* remove_extra_spaces on "Hello    world\n\n\twith   spaces", and on a text
\* whose only whitespace is a no-break space between two letters
C29_Witness ==
    /\ ret.op = "remove_extra_spaces"
    /\ calls = <<"remove_extra_spaces">>
    /\ \/ input = HelloText /\ cleaner.text = HelloNormalized
       \/ input = <<"a", "U+00A0", "a">> /\ cleaner.text = <<"a", " ", "a">>
    /\ normalize_whitespace(prev).text = cleaner.text

----------------------------------------------------------------------------
(* A report the caller keeps while the cleaner is used further *)

\* report['steps_applied'].clear() by the caller that holds the report: the
\* list is self.cleaning_steps itself until reset() binds a new one
ClearHeldSteps ==
    /\ held # None
    /\ held' = Some([The(held) EXCEPT !.value.steps_applied = <<>>])
    /\ cleaner' = IF The(held).shares_steps
                  THEN [cleaner EXCEPT !.cleaning_steps = <<>>]
                  ELSE cleaner
    /\ prev' = cleaner
    /\ ret' = [op |-> "steps_applied.clear", value |-> None]
    /\ UNCHANGED <<input, extractor, calls, cli, classifier, files, ner>>

NextReport ==
    \/ KeepReport \/ RemoveExtraSpaces \/ ToLowercase \/ GetCleanedText
    \/ Reset \/ ClearHeldSteps

SpecReport == Init /\ [][NextReport]_vars

\* C30: a report get_report() has returned is a snapshot: a transform applied
\* to the cleaner afterwards changes no field of it, so that its steps_applied
\* stays as long as it was and its steps go on adding up to its chars_removed
\* where they did; and clearing the report's steps_applied leaves the
\* cleaner's step log as it is.
C30_ReportIsSnapshot ==
    /\ [][(held # None /\ ret'.op \in TransformNames) => held' = held]_vars
    /\ [][(held # None /\ ret'.op \in TransformNames
             /\ SumRemoved(The(held).value.steps_applied) = The(held).value.chars_removed)
            => SumRemoved(The(held').value.steps_applied) = The(held').value.chars_removed]_vars
    /\ [][ret'.op = "steps_applied.clear" =>
            cleaner'.cleaning_steps = cleaner.cleaning_steps]_vars

====
